---- MODULE Spec2Model ----
(***************************************************************************)
(* Battle-session and progression engine of the RPG server                 *)
(* (app/routers/progression.py, app/routers/character.py, app/services,    *)
(* app/models).                                                            *)
(*                                                                         *)
(* Persistent state is the PostgreSQL database: the characters table and   *)
(* the battle_sessions table.  Every request runs on its own AsyncSession  *)
(* (app/database.py get_db), so a request works on private copies of the   *)
(* rows it SELECTed and the database changes only at `await db.commit()`.  *)
(* The only points where requests interleave are the awaits; a handler is  *)
(* modelled as one step per await.                                         *)
(*                                                                         *)
(* Times are seconds since an arbitrary epoch; battle-log times are        *)
(* milliseconds.  Session tokens (uuid4 strings in the code) are numbered   *)
(* in creation order; a character id (also a uuid4) is written as the pair *)
(* <<user, name>>, which create_character keeps unique.  A stage key "c-s" *)
(* is the pair <<c, s>>.                                                   *)
(* Floats that are multiples of 1/20 are kept as integers scaled by 20.    *)
(***************************************************************************)
EXTENDS Integers, Sequences, FiniteSets, TLC

\* ------------------------------------------------------------------ bounds
MaxChars == 2
MaxSessions == 2
MaxNow == 1200
TickStep == 600
MaxSeed == 1
MaxDelay == 1
MaxXpSteps == 16
MaxLevel == 4

\* -------------------------------------------------------- program constants
TOTAL_CHAPTERS == 20
STAGES_PER_CHAPTER == 10
battle_session_expiry_seconds == 600
max_characters_per_user == 3
MIN_BATTLE_DURATION_MS == 5000
MAX_BATTLE_DURATION_MS == 600000
MAX_DAMAGE_PER_POWER == 50

Users == {"u1", "u2"}
Names == {"Hero"}
Procs == {"p1", "p2"}

\* ------------------------------------------------------------ small helpers
RECURSIVE SumSeq(_)
SumSeq(s) == IF s = <<>> THEN 0 ELSE Head(s) + SumSeq(Tail(s))

Min(a, b) == IF a <= b THEN a ELSE b
Max(a, b) == IF a >= b THEN a ELSE b
Abs(a) == IF a >= 0 THEN a ELSE 0 - a

Contains(s, x) == \E i \in 1..Len(s) : s[i] = x

\* ============================================================ StageGenerator
MOB_TEMPLATES ==
    [orc_warrior   |-> [base_health |-> 100],
     goblin_archer |-> [base_health |-> 60],
     dark_mage     |-> [base_health |-> 50],
     skeleton      |-> [base_health |-> 70],
     troll         |-> [base_health |-> 200]]

BOSS_TEMPLATES ==
    [orc_warlord |-> [base_health |-> 500],
     lich_king   |-> [base_health |-> 400],
     dragon      |-> [base_health |-> 1000]]

\* list(BOSS_TEMPLATES.keys()) and list(MOB_TEMPLATES.keys()), in dict order
BossChoices == <<"orc_warlord", "lich_king", "dragon">>
AllMobKeys == <<"orc_warrior", "goblin_archer", "dark_mage", "skeleton", "troll">>

CHAPTER_THEMES(chapter) ==
    CASE chapter = 1 -> <<"orc_warrior", "goblin_archer">>
      [] chapter = 2 -> <<"orc_warrior", "goblin_archer", "skeleton">>
      [] chapter = 3 -> <<"skeleton", "dark_mage">>
      [] chapter = 4 -> <<"skeleton", "dark_mage", "troll">>
      [] chapter = 5 -> <<"dark_mage", "troll">>
      [] OTHER -> AllMobKeys

\* A multiplier without the mini-boss bonus
get_difficulty_multiplier_NoMiniBoss(chapter, stage) ==
    LET base == 20 + (chapter - 1) * 10
        stage_bonus == (stage - 1) * 2 + (IF stage = 10 THEN 10 ELSE 0)
    IN  base + stage_bonus

\* A multiplier whose boss stage gets the boss bonus alone
get_difficulty_multiplier_FlatBoss(chapter, stage) ==
    LET base == 20 + (chapter - 1) * 10
        stage_bonus == IF stage = 10 THEN 10
                       ELSE (stage - 1) * 2 + (IF stage = 5 THEN 5 ELSE 0)
    IN  base + stage_bonus

\* get_difficulty_multiplier, times 20 (every term is a multiple of 0.05)
get_difficulty_multiplier(chapter, stage) ==
    LET base == 20 + (chapter - 1) * 10
        stage_bonus == (stage - 1) * 2
                       + (IF stage = 10 THEN 10 ELSE IF stage = 5 THEN 5 ELSE 0)
    IN  base + stage_bonus

\* A mob count without the cap of 10
get_mob_count_Uncapped(chapter, stage) ==
    LET base_count == 3 + chapter \div 2
    IN  IF stage = 10 THEN 1
        ELSE IF stage = 5 THEN 2
        ELSE base_count + stage \div 3

get_mob_count(chapter, stage) ==
    LET base_count == 3 + chapter \div 2
    IN  IF stage = 10 THEN 1
        ELSE IF stage = 5 THEN 2
        ELSE Min(base_count + stage \div 3, 10)

\* int(base * difficulty) is computed in binary floating point: for these
\* (chapter, stage, base) the float product falls just below the exact
\* integer product and truncation yields one less than the exact value.
FloatTruncLow == {
    <<2,9,50>>, <<2,9,100>>, <<2,9,200>>, <<2,9,400>>, <<3,4,50>>,
    <<3,4,100>>, <<3,4,200>>, <<3,4,400>>, <<6,7,50>>, <<6,7,60>>,
    <<6,7,100>>, <<6,7,200>>, <<6,7,240>>, <<6,7,400>>, <<7,2,50>>,
    <<7,2,60>>, <<7,2,100>>, <<7,2,200>>, <<7,2,240>>, <<7,2,400>>,
    <<7,7,45>>, <<7,7,50>>, <<7,7,100>>, <<7,7,200>>, <<7,7,400>>,
    <<8,2,50>>, <<8,2,100>>, <<8,2,200>>, <<8,2,400>>, <<8,7,50>>,
    <<8,7,100>>, <<8,7,200>>, <<8,7,400>>, <<9,2,50>>, <<9,2,100>>,
    <<9,2,200>>, <<9,2,400>>, <<14,8,50>>, <<14,8,60>>, <<14,8,100>>,
    <<14,8,200>>, <<14,8,240>>, <<14,8,400>>, <<15,3,50>>, <<15,3,60>>,
    <<15,3,85>>, <<15,3,100>>, <<15,3,200>>, <<15,3,240>>, <<15,3,400>>,
    <<15,8,50>>, <<15,8,100>>, <<15,8,200>>, <<15,8,400>>, <<16,3,50>>,
    <<16,3,90>>, <<16,3,100>>, <<16,3,200>>, <<16,3,400>>, <<16,8,50>>,
    <<16,8,90>>, <<16,8,100>>, <<16,8,200>>, <<16,8,400>>, <<17,3,50>>,
    <<17,3,95>>, <<17,3,100>>, <<17,3,200>>, <<17,3,400>>, <<17,8,50>>,
    <<17,8,100>>, <<17,8,200>>, <<17,8,400>>, <<18,3,50>>, <<18,3,100>>,
    <<18,3,200>>, <<18,3,400>>, <<18,8,50>>, <<18,8,100>>, <<18,8,200>>,
    <<18,8,400>>, <<19,3,50>>, <<19,3,100>>, <<19,3,200>>, <<19,3,400>> }

ScaleStat(base, chapter, stage) ==
    LET exact == (base * get_difficulty_multiplier(chapter, stage)) \div 20
    IN  IF <<chapter, stage, base>> \in FloatTruncLow THEN exact - 1 ELSE exact

\* A monster whose gold depends on the template it was made from
generate_mob_GoldByHealth(mob_id, base_health, chapter, stage) ==
    [mob_id      |-> mob_id,
     health      |-> ScaleStat(base_health, chapter, stage),
     xp_reward   |-> ScaleStat(10 + chapter * 5, chapter, stage),
     gold_reward |-> ScaleStat(5 + chapter * 3, chapter, stage) + base_health \div 50]

\* generate_mob: the fields of MobConfig that the server reads again
generate_mob(mob_id, base_health, chapter, stage) ==
    [mob_id      |-> mob_id,
     health      |-> ScaleStat(base_health, chapter, stage),
     xp_reward   |-> ScaleStat(10 + chapter * 5, chapter, stage),
     gold_reward |-> ScaleStat(5 + chapter * 3, chapter, stage)]

\* random.choice(theme) for the k-th draw of a request whose random source
\* is in state `seed`
RandomChoice(theme, seed, k) == theme[((seed * k) % Len(theme)) + 1]

generate_stage_mobs(chapter, stage, seed) ==
    LET boss_id == BossChoices[((chapter - 1) % Len(BossChoices)) + 1]
        theme == CHAPTER_THEMES(chapter)
    IN  IF stage = 10 THEN
            << generate_mob(boss_id, BOSS_TEMPLATES[boss_id].base_health,
                            chapter, stage) >>
        ELSE IF stage = 5 THEN
            LET mob_id == RandomChoice(theme, seed, 1)
            IN << generate_mob(boss_id \o "_mini",
                               (BOSS_TEMPLATES[boss_id].base_health * 6) \div 10,
                               chapter, stage),
                  generate_mob(mob_id, MOB_TEMPLATES[mob_id].base_health,
                               chapter, stage) >>
        ELSE
            [k \in 1..get_mob_count(chapter, stage) |->
                LET mob_id == RandomChoice(theme, seed, k)
                IN  generate_mob(mob_id, MOB_TEMPLATES[mob_id].base_health,
                                 chapter, stage)]

\* A reward multiplier without the mini-boss bonus
StageMultiplier_NoMiniBoss(stage) == IF stage = 10 THEN 3 ELSE 1

StageMultiplier(stage) == IF stage = 10 THEN 3 ELSE IF stage = 5 THEN 2 ELSE 1

generate_stage_rewards(chapter, stage, mobs) ==
    LET base_gold == 100 * chapter + 10 * stage
        base_gems == chapter + (stage \div 5)
        base_xp == 50 * chapter + 5 * stage
        mob_gold == SumSeq([i \in 1..Len(mobs) |-> mobs[i].gold_reward])
        mob_xp == SumSeq([i \in 1..Len(mobs) |-> mobs[i].xp_reward])
        multiplier == StageMultiplier(stage)
    IN  [gold  |-> (base_gold + mob_gold) * multiplier,
         gems  |-> base_gems * multiplier,
         xp    |-> (base_xp + mob_xp) * multiplier,
         items |-> <<>>]

\* ========================================================= RewardsCalculator
xp_for_level(level) == 100 * level * level

RECURSIVE LevelLoop(_, _)
LevelLoop(level, total_xp) ==
    IF xp_for_level(level + 1) <= total_xp
    THEN LevelLoop(level + 1, total_xp)
    ELSE level

calculate_level_from_xp(total_xp) == LevelLoop(1, total_xp)

\* An apply_xp that never returns a level below the current one
apply_xp_KeepLevel(current_xp, current_level, xp_gained) ==
    LET new_xp == current_xp + xp_gained
        new_level == Max(current_level, calculate_level_from_xp(new_xp))
    IN  [new_xp |-> new_xp,
         new_level |-> new_level,
         did_level_up |-> new_level > current_level]

apply_xp(current_xp, current_level, xp_gained) ==
    LET new_xp == current_xp + xp_gained
        new_level == calculate_level_from_xp(new_xp)
    IN  [new_xp |-> new_xp,
         new_level |-> new_level,
         did_level_up |-> new_level > current_level]

\* Rarity (schemas/items.py)
COMMON == 0
UNCOMMON == 1
RARE == 2
EPIC == 3
LEGENDARY == 4

\* slots = ["weapon", "helmet", "chest", "legs", "gloves", "boots", "ring",
\* "amulet"], by index
RING_SLOT == 6

\* random.random() in thousandths, for a request whose random source is in
\* state `seed`: every draw of an even seed is 0.999, of an odd seed 0.0
RandomRoll(seed) == IF seed % 2 = 0 THEN 999 ELSE 0

\* The rarity roll_item_drop picks for the second random.random() draw;
\* draw and thresholds in thousandths
RollRarity(chapter, rarity_roll) ==
    LET rare_threshold == 700 - chapter * 20
        epic_threshold == 900 - chapter * 10
        legendary_threshold == 980 - chapter * 5
    IN  IF rarity_roll > legendary_threshold THEN LEGENDARY
        ELSE IF rarity_roll > epic_threshold THEN EPIC
        ELSE IF rarity_roll > rare_threshold THEN RARE
        ELSE IF rarity_roll > 400 THEN UNCOMMON
        ELSE COMMON

\* A roll that drops nothing when the draw is above half the chance
roll_item_drop_draws_HalfChance(chapter, stage, drop_chance, drop_roll, rarity_roll, slot) ==
    IF drop_roll > drop_chance \div 2 THEN <<>>
    ELSE << [item_type |-> 0, rarity |-> RollRarity(chapter, rarity_roll),
             slot |-> slot, atk |-> 0, def |-> 0] >>

\* roll_item_drop for given outcomes of its draws: drop_roll and rarity_roll
\* are the two random.random() values, slot the index random.choice picks
roll_item_drop_draws(chapter, stage, drop_chance, drop_roll, rarity_roll, slot) ==
    LET rarity == RollRarity(chapter, rarity_roll)
        base_stat == 5 + chapter * 2 + rarity * 3
    IN  IF drop_roll > drop_chance THEN <<>>
        ELSE << [item_type |-> 0,
                 rarity |-> rarity,
                 slot |-> slot,
                 atk |-> IF slot \in {0, RING_SLOT} THEN base_stat
                         ELSE base_stat \div 3,
                 def |-> IF slot \in 1..5 THEN base_stat \div 2 ELSE 0] >>

\* roll_item_drop; chances and thresholds in thousandths.  The result is a
\* sequence: <<>> for None, <<item>> for a drop.  k numbers the roll within
\* the request.  bonus_stats, name and id are not read by the server again.
roll_item_drop(chapter, stage, drop_chance, seed, k) ==
    roll_item_drop_draws(chapter, stage, drop_chance, RandomRoll(seed),
                         RandomRoll(seed), (seed * k) % 8)

RECURSIVE MobDrops(_, _, _, _, _)
MobDrops(chapter, stage, num_mobs, seed, k) ==
    IF k > num_mobs THEN <<>>
    ELSE roll_item_drop(chapter, stage, 50 + chapter * 10, seed, k)
         \o MobDrops(chapter, stage, num_mobs, seed, k + 1)

generate_stage_item_drops(chapter, stage, num_mobs, seed) ==
    (IF stage = 10 THEN roll_item_drop(chapter, stage, 1000, seed, 0) ELSE <<>>)
    \o MobDrops(chapter, stage, num_mobs, seed, 1)

\* =========================================================== BattleValidator
\* A validator without the check of the reported duration
validate_battle_log_NoStatsCheck(battle_log, expected_chapter, expected_stage, expected_mobs, session_created_at) ==
    LET duration == battle_log.battle_end_time - battle_log.battle_start_time
        session_ts == session_created_at * 1000
        expected_mob_count == Len(expected_mobs)
        max_expected_damage == battle_log.player_power * MAX_DAMAGE_PER_POWER
        total_mob_health ==
            SumSeq([i \in 1..Len(expected_mobs) |-> expected_mobs[i].health])
    IN  IF battle_log.chapter # expected_chapter
           \/ battle_log.stage # expected_stage
        THEN [is_valid |-> FALSE, error |-> "Chapter/stage mismatch"]
        ELSE IF duration < MIN_BATTLE_DURATION_MS
        THEN [is_valid |-> FALSE, error |-> "Battle too short"]
        ELSE IF duration > MAX_BATTLE_DURATION_MS
        THEN [is_valid |-> FALSE, error |-> "Battle too long"]
        ELSE IF battle_log.battle_start_time < session_ts - 5000
        THEN [is_valid |-> FALSE,
              error |-> "Battle started before session was created"]
        ELSE IF battle_log.stats.mobs_killed # expected_mob_count
        THEN [is_valid |-> FALSE, error |-> "Kill count mismatch"]
        ELSE IF battle_log.stats.total_damage_dealt * 2 < total_mob_health
        THEN [is_valid |-> FALSE, error |-> "Damage dealt too low for mob health"]
        ELSE IF battle_log.stats.total_damage_dealt > max_expected_damage * 100
        THEN [is_valid |-> FALSE, error |-> "Damage dealt suspiciously high"]
        ELSE IF FALSE
        THEN [is_valid |-> FALSE, error |-> "Duration mismatch in stats"]
        ELSE [is_valid |-> TRUE, error |-> ""]

\* A validator that checks the damage floor before the kill count
validate_battle_log_DamageFirst(battle_log, expected_chapter, expected_stage, expected_mobs, session_created_at) ==
    LET duration == battle_log.battle_end_time - battle_log.battle_start_time
        session_ts == session_created_at * 1000
        expected_mob_count == Len(expected_mobs)
        max_expected_damage == battle_log.player_power * MAX_DAMAGE_PER_POWER
        total_mob_health ==
            SumSeq([i \in 1..Len(expected_mobs) |-> expected_mobs[i].health])
    IN  IF battle_log.chapter # expected_chapter
           \/ battle_log.stage # expected_stage
        THEN [is_valid |-> FALSE, error |-> "Chapter/stage mismatch"]
        ELSE IF duration < MIN_BATTLE_DURATION_MS
        THEN [is_valid |-> FALSE, error |-> "Battle too short"]
        ELSE IF duration > MAX_BATTLE_DURATION_MS
        THEN [is_valid |-> FALSE, error |-> "Battle too long"]
        ELSE IF battle_log.battle_start_time < session_ts - 5000
        THEN [is_valid |-> FALSE,
              error |-> "Battle started before session was created"]
        ELSE IF battle_log.stats.total_damage_dealt * 2 < total_mob_health
        THEN [is_valid |-> FALSE, error |-> "Damage dealt too low for mob health"]
        ELSE IF battle_log.stats.mobs_killed # expected_mob_count
        THEN [is_valid |-> FALSE, error |-> "Kill count mismatch"]
        ELSE IF battle_log.stats.total_damage_dealt > max_expected_damage * 100
        THEN [is_valid |-> FALSE, error |-> "Damage dealt suspiciously high"]
        ELSE IF Abs(battle_log.stats.duration_ms - duration) > 1000
        THEN [is_valid |-> FALSE, error |-> "Duration mismatch in stats"]
        ELSE [is_valid |-> TRUE, error |-> ""]

\* A validator whose damage floor rejects exactly half of the health
validate_battle_log_HalfRejected(battle_log, expected_chapter, expected_stage, expected_mobs, session_created_at) ==
    LET duration == battle_log.battle_end_time - battle_log.battle_start_time
        session_ts == session_created_at * 1000
        expected_mob_count == Len(expected_mobs)
        max_expected_damage == battle_log.player_power * MAX_DAMAGE_PER_POWER
        total_mob_health ==
            SumSeq([i \in 1..Len(expected_mobs) |-> expected_mobs[i].health])
    IN  IF battle_log.chapter # expected_chapter
           \/ battle_log.stage # expected_stage
        THEN [is_valid |-> FALSE, error |-> "Chapter/stage mismatch"]
        ELSE IF duration < MIN_BATTLE_DURATION_MS
        THEN [is_valid |-> FALSE, error |-> "Battle too short"]
        ELSE IF duration > MAX_BATTLE_DURATION_MS
        THEN [is_valid |-> FALSE, error |-> "Battle too long"]
        ELSE IF battle_log.battle_start_time < session_ts - 5000
        THEN [is_valid |-> FALSE,
              error |-> "Battle started before session was created"]
        ELSE IF battle_log.stats.mobs_killed # expected_mob_count
        THEN [is_valid |-> FALSE, error |-> "Kill count mismatch"]
        ELSE IF battle_log.stats.total_damage_dealt * 2 <= total_mob_health
        THEN [is_valid |-> FALSE, error |-> "Damage dealt too low for mob health"]
        ELSE IF battle_log.stats.total_damage_dealt > max_expected_damage * 100
        THEN [is_valid |-> FALSE, error |-> "Damage dealt suspiciously high"]
        ELSE IF Abs(battle_log.stats.duration_ms - duration) > 1000
        THEN [is_valid |-> FALSE, error |-> "Duration mismatch in stats"]
        ELSE [is_valid |-> TRUE, error |-> ""]

\* validate_battle_log; the error strings omit the interpolated numbers
validate_battle_log(battle_log, expected_chapter, expected_stage, expected_mobs, session_created_at) ==
    LET duration == battle_log.battle_end_time - battle_log.battle_start_time
        session_ts == session_created_at * 1000
        expected_mob_count == Len(expected_mobs)
        max_expected_damage == battle_log.player_power * MAX_DAMAGE_PER_POWER
        total_mob_health ==
            SumSeq([i \in 1..Len(expected_mobs) |-> expected_mobs[i].health])
    IN  IF battle_log.chapter # expected_chapter
           \/ battle_log.stage # expected_stage
        THEN [is_valid |-> FALSE, error |-> "Chapter/stage mismatch"]
        ELSE IF duration < MIN_BATTLE_DURATION_MS
        THEN [is_valid |-> FALSE, error |-> "Battle too short"]
        ELSE IF duration > MAX_BATTLE_DURATION_MS
        THEN [is_valid |-> FALSE, error |-> "Battle too long"]
        ELSE IF battle_log.battle_start_time < session_ts - 5000
        THEN [is_valid |-> FALSE,
              error |-> "Battle started before session was created"]
        ELSE IF battle_log.stats.mobs_killed # expected_mob_count
        THEN [is_valid |-> FALSE, error |-> "Kill count mismatch"]
        ELSE IF battle_log.stats.total_damage_dealt * 2 < total_mob_health
        THEN [is_valid |-> FALSE, error |-> "Damage dealt too low for mob health"]
        ELSE IF battle_log.stats.total_damage_dealt > max_expected_damage * 100
        THEN [is_valid |-> FALSE, error |-> "Damage dealt suspiciously high"]
        ELSE IF Abs(battle_log.stats.duration_ms - duration) > 1000
        THEN [is_valid |-> FALSE, error |-> "Duration mismatch in stats"]
        ELSE [is_valid |-> TRUE, error |-> ""]

\* ===================================================================== state
VARIABLES
    now,              \* datetime.now(timezone.utc), in seconds
    characters,       \* committed rows of table characters, by id
    battle_sessions,  \* committed rows of table battle_sessions, by token
    txn,              \* per running complete_stage request: its AsyncSession
    response,         \* the response sent by the latest step, if it sent one
    granted           \* per token: success:true responses sent so far

vars == <<now, characters, battle_sessions, txn, response, granted>>

\* ---------------------------------------------------------------- Character
get_default_inventory == [items |-> <<>>, max_slots |-> 50]

get_default_progression ==
    [chapters |-> [highest_chapter |-> 1,
                   highest_stage |-> 1,
                   completed_stages |-> <<>>]]

\* What get_default_stats contributes to calculate_power:
\* 2 * (10 + 10 + 10 + 10) + 3 * (10 + 5) + 2 * (5 + 5)
DefaultStatsPower == 145

calculate_power(character) == Max(100, character.level * 10 + DefaultStatsPower)

\* The row create_character inserts
NewCharacter(user_id, name) ==
    [user_id |-> user_id,
     name |-> name,
     level |-> 1,
     xp |-> 0,
     power |-> 100,
     gold |-> 100,
     gems |-> 10,
     free_stat_points |-> 0,
     inventory |-> get_default_inventory,
     progression |-> get_default_progression]

\* get_character_for_user: the ids of the rows the SELECT returns (0 or 1)
get_character_for_user(character_id, user) ==
    {c \in DOMAIN characters : c = character_id /\ characters[c].user_id = user}

get_completed_stages(character) == character.progression.chapters.completed_stages

\* An unlock check that reads the highest_chapter/highest_stage marker
is_stage_unlocked_ByMarker(character, chapter, stage) ==
    LET chapters_prog == character.progression.chapters
    IN  \/ chapter < chapters_prog.highest_chapter
        \/ /\ chapter = chapters_prog.highest_chapter
           /\ stage <= chapters_prog.highest_stage + 1

\* An unlock check that opens the whole first chapter
is_stage_unlocked_FirstChapter(character, chapter, stage) ==
    IF chapter = 1 THEN TRUE
    ELSE IF stage > 1
         THEN Contains(get_completed_stages(character), <<chapter, stage - 1>>)
         ELSE Contains(get_completed_stages(character),
                       <<chapter - 1, STAGES_PER_CHAPTER>>)

is_stage_unlocked(character, chapter, stage) ==
    IF chapter = 1 /\ stage = 1 THEN TRUE
    ELSE IF stage > 1
         THEN Contains(get_completed_stages(character), <<chapter, stage - 1>>)
         ELSE Contains(get_completed_stages(character),
                       <<chapter - 1, STAGES_PER_CHAPTER>>)

\* ---------------------------------------------------------------- responses
NoResponse == [op |-> "none", status |-> 0, detail |-> "", body |-> <<>>]

HTTPException(op, status, detail) ==
    [op |-> op, status |-> status, detail |-> detail, body |-> <<>>]

\* An exception that is not an HTTPException (the store failed): the client
\* gets a bare 500; raised_at is the await the traceback in the server log
\* names
ServerError(op, raised_at) ==
    [op |-> op, status |-> 500, detail |-> "Internal Server Error",
     body |-> <<>>, raised_at |-> raised_at]

StageCompleteResponse(success, already_completed, error, rewards, progression, level_up, new_level) ==
    [op |-> "stage_complete", status |-> 200, detail |-> "",
     body |-> [success |-> success,
               already_completed |-> already_completed,
               error |-> error,
               rewards |-> rewards,
               progression |-> progression,
               level_up |-> level_up,
               new_level |-> new_level]]

\* A rejection sent as an HTTP error
Rejected_AsError(already_completed, error) ==
    HTTPException("stage_complete", 400, error)

Rejected(already_completed, error) ==
    StageCompleteResponse(FALSE, already_completed, error, <<>>, <<>>, FALSE, <<>>)

\* ---------------------------------------------------------------------- Init
Init ==
    /\ now = 0
    /\ characters = <<>>
    /\ battle_sessions = <<>>
    /\ txn = [p \in Procs |-> [pc |-> "idle"]]
    /\ response = NoResponse
    /\ granted = <<>>

\* ------------------------------------------------------------------- clock
Tick ==
    /\ now + TickStep <= MaxNow
    /\ now' = now + TickStep
    /\ response' = NoResponse
    /\ UNCHANGED <<characters, battle_sessions, txn, granted>>

\* --------------------------------------------------------- create_character
create_character(user, name) ==
    LET char_count == Cardinality({c \in DOMAIN characters :
                                      characters[c].user_id = user})
        duplicate == \E c \in DOMAIN characters :
                        /\ characters[c].user_id = user
                        /\ characters[c].name = name
        id == <<user, name>>
    IN  /\ IF char_count >= max_characters_per_user THEN
               /\ response' = HTTPException("create_character", 400,
                                             "Maximum characters allowed")
               /\ UNCHANGED characters
           ELSE IF duplicate THEN
               /\ response' = HTTPException("create_character", 400,
                                  "You already have a character with this name")
               /\ UNCHANGED characters
           ELSE
               /\ Cardinality(DOMAIN characters) < MaxChars
               /\ characters' = (id :> NewCharacter(user, name)) @@ characters
               /\ response' = [op |-> "create_character", status |-> 201,
                                detail |-> "",
                                body |-> [id |-> id, name |-> name, level |-> 1]]
        /\ UNCHANGED <<now, battle_sessions, txn, granted>>

\* --------------------------------------------------------- get_stage_config
\* generate_stage_mobs, generate_stage_rewards and generate_stage_item_drops
\* as get_stage_config combines them
StageRewards(chapter, stage, seed) ==
    LET mobs == generate_stage_mobs(chapter, stage, seed)
    IN  [generate_stage_rewards(chapter, stage, mobs) EXCEPT
            !.items = generate_stage_item_drops(chapter, stage, Len(mobs), seed)]

\* The BattleSession row get_stage_config inserts. expires_at is computed
\* from the clock read at `read_at` in the handler; created_at is the column
\* default, a second clock read made when the row is flushed, at `created`
NewBattleSession(session_token, character_id, chapter, stage, seed, read_at, created) ==
    [session_token |-> session_token,
     character_id |-> character_id,
     chapter |-> chapter,
     stage |-> stage,
     mob_config |-> generate_stage_mobs(chapter, stage, seed),
     rewards |-> StageRewards(chapter, stage, seed),
     created_at |-> created,
     expires_at |-> read_at + battle_session_expiry_seconds,
     is_used |-> FALSE,
     used_at |-> <<>>]

\* StageGenerator.get_time_limit, in seconds
get_time_limit(chapter, stage) ==
    LET base_time == 180
    IN  IF stage = 10 THEN base_time + 120
        ELSE IF stage = 5 THEN base_time + 60
        ELSE base_time + stage * 10

\* A response whose rewards are generated again, from another draw
StageConfigResponse_Regenerated(battle_session, mobs, rewards) ==
    [op |-> "stage_config", status |-> 200, detail |-> "",
     body |-> [session_token |-> battle_session.session_token,
               expires_at |-> battle_session.expires_at,
               chapter |-> battle_session.chapter,
               stage |-> battle_session.stage,
               is_boss |-> battle_session.stage = STAGES_PER_CHAPTER,
               is_miniboss |-> battle_session.stage = 5,
               difficulty_multiplier |->
                   get_difficulty_multiplier(battle_session.chapter,
                                             battle_session.stage),
               time_limit_seconds |->
                   get_time_limit(battle_session.chapter, battle_session.stage),
               mobs |-> mobs,
               rewards |-> StageRewards(battle_session.chapter,
                                        battle_session.stage,
                                        Len(rewards.items) + 1)]]

StageConfigResponse(battle_session, mobs, rewards) ==
    [op |-> "stage_config", status |-> 200, detail |-> "",
     body |-> [session_token |-> battle_session.session_token,
               expires_at |-> battle_session.expires_at,
               chapter |-> battle_session.chapter,
               stage |-> battle_session.stage,
               is_boss |-> battle_session.stage = STAGES_PER_CHAPTER,
               is_miniboss |-> battle_session.stage = 5,
               difficulty_multiplier |->
                   get_difficulty_multiplier(battle_session.chapter,
                                             battle_session.stage),
               time_limit_seconds |->
                   get_time_limit(battle_session.chapter, battle_session.stage),
               mobs |-> mobs,
               rewards |-> rewards]]

\* An insert that recycles the row of a consumed session
InsertSession_Recycle(table, battle_session) ==
    IF \E i \in DOMAIN table : table[i].is_used
    THEN LET i == CHOOSE i \in DOMAIN table : table[i].is_used
         IN  [table EXCEPT ![i] = battle_session]
    ELSE Append(table, battle_session)

\* db.add(battle_session); await db.commit(): a new row under a fresh token
InsertSession(table, battle_session) == Append(table, battle_session)

\* Seconds between the clock read that expires_at is computed from and the
\* flush that evaluates the created_at default; the step happens at the
\* flush, and the handler did not start before the server did (time 0)
FlushDelays == {delay \in 0..MaxDelay : delay <= now}

\* str(uuid.uuid4()): any token, one a row already has or a new one; new
\* tokens are all alike and named by the next index
uuid4 == 1..(Len(battle_sessions) + 1)

\* A table without a key on session_token
PrimaryKeyTaken_NoKey(table, session_token) == FALSE

\* session_token is the primary key of battle_sessions: the INSERT of a
\* token that a row already has raises IntegrityError at the commit
PrimaryKeyTaken(table, session_token) ==
    \E i \in DOMAIN table : table[i].session_token = session_token

\* One step: the unlock check reads completed_stages, which only grows, and
\* the INSERT touches no existing row.
get_stage_config(user, character_id, chapter, stage, seed, delay) ==
    LET found == get_character_for_user(character_id, user)
        op == "stage_config"
    IN  /\ IF chapter < 1 \/ chapter > TOTAL_CHAPTERS THEN
               /\ response' = HTTPException(op, 400, "Invalid chapter")
               /\ UNCHANGED <<battle_sessions, granted>>
           ELSE IF stage < 1 \/ stage > STAGES_PER_CHAPTER THEN
               /\ response' = HTTPException(op, 400, "Invalid stage")
               /\ UNCHANGED <<battle_sessions, granted>>
           ELSE IF found = {} THEN
               /\ response' = HTTPException(op, 404, "Character not found")
               /\ UNCHANGED <<battle_sessions, granted>>
           ELSE IF ~is_stage_unlocked(characters[character_id], chapter, stage) THEN
               /\ response' = HTTPException(op, 403, "Stage not unlocked")
               /\ UNCHANGED <<battle_sessions, granted>>
           ELSE
               /\ Len(battle_sessions) < MaxSessions
               /\ \E session_token \in uuid4 :
                     LET battle_session ==
                             NewBattleSession(session_token, character_id,
                                              chapter, stage, seed,
                                              now - delay, now)
                     IN  IF PrimaryKeyTaken(battle_sessions, session_token) THEN
                             /\ response' = ServerError(op, "commit")
                             /\ UNCHANGED <<battle_sessions, granted>>
                         ELSE
                             /\ granted' = Append(granted, 0)
                             /\ battle_sessions' =
                                   InsertSession(battle_sessions, battle_session)
                             /\ response' =
                                   StageConfigResponse(battle_session,
                                                       battle_session.mob_config,
                                                       battle_session.rewards)
        /\ UNCHANGED <<now, characters, txn>>

\* ----------------------------------------------------------- complete_stage
\* The battle logs a client submits for the session its token names: built
\* from the stage-config response (monsters, created_at) it was given.
BattleLog(variant, chapter, stage, mobs, created_at) ==
    LET ts == created_at * 1000
        total_health == SumSeq([i \in 1..Len(mobs) |-> mobs[i].health])
    IN  CASE variant = "honest" ->
               [chapter |-> chapter, stage |-> stage,
                battle_start_time |-> ts, battle_end_time |-> ts + 60000,
                player_level |-> 1, player_power |-> 155,
                stats |-> [mobs_killed |-> Len(mobs),
                           total_damage_dealt |-> total_health,
                           duration_ms |-> 60000]]
          [] variant = "frugal" ->
               [chapter |-> chapter, stage |-> stage,
                battle_start_time |-> ts - 5000, battle_end_time |-> ts,
                player_level |-> 3, player_power |-> 100,
                stats |-> [mobs_killed |-> Len(mobs),
                           total_damage_dealt |-> (total_health + 1) \div 2,
                           duration_ms |-> 6000]]
          [] variant = "too_short" ->
               [chapter |-> chapter, stage |-> stage,
                battle_start_time |-> ts, battle_end_time |-> ts + 4999,
                player_level |-> 1, player_power |-> 155,
                stats |-> [mobs_killed |-> Len(mobs),
                           total_damage_dealt |-> total_health,
                           duration_ms |-> 4999]]

LogVariants == {"honest", "frugal", "too_short"}

\* The log of `variant` a client holding `token` sends
ClientLog(variant, token, chapter, stage) ==
    IF token \in DOMAIN battle_sessions
    THEN BattleLog(variant, chapter, stage, battle_sessions[token].mob_config,
                   battle_sessions[token].created_at)
    ELSE BattleLog(variant, chapter, stage, <<>>, now)

\* The comparison turned around
is_expired_Inverted(session) == now < session.expires_at

\* A session that is expired from its deadline on
is_expired_AtDeadline(session) == now >= session.expires_at

\* BattleSession.is_expired
is_expired(session) == now > session.expires_at

RECURSIVE AddItems(_, _)
AddItems(inventory, items) ==
    IF items = <<>> THEN inventory
    ELSE AddItems(IF Len(inventory.items) < inventory.max_slots
                  THEN [inventory EXCEPT !.items = Append(@, Head(items))]
                  ELSE inventory,
                  Tail(items))

\* A step 9 that sets the marker to the completed stage whenever the
\* chapter is the highest one
UpdateProgression_Overwrite(chapters_prog, chapter, stage) ==
    LET stage_key == <<chapter, stage>>
        completed == IF Contains(chapters_prog.completed_stages, stage_key)
                     THEN chapters_prog.completed_stages
                     ELSE Append(chapters_prog.completed_stages, stage_key)
        p1 == [chapters_prog EXCEPT !.completed_stages = completed]
    IN  IF chapter > p1.highest_chapter THEN
            [p1 EXCEPT !.highest_chapter = chapter, !.highest_stage = stage]
        ELSE IF chapter = p1.highest_chapter THEN
            IF stage = STAGES_PER_CHAPTER
            THEN [p1 EXCEPT !.highest_chapter = chapter + 1, !.highest_stage = 1]
            ELSE [p1 EXCEPT !.highest_stage = stage]
        ELSE p1

\* A step 9 that does not move on to the next chapter
UpdateProgression_StayAtTen(chapters_prog, chapter, stage) ==
    LET stage_key == <<chapter, stage>>
        completed == IF Contains(chapters_prog.completed_stages, stage_key)
                     THEN chapters_prog.completed_stages
                     ELSE Append(chapters_prog.completed_stages, stage_key)
        p1 == [chapters_prog EXCEPT !.completed_stages = completed]
    IN  IF chapter > p1.highest_chapter THEN
            [p1 EXCEPT !.highest_chapter = chapter, !.highest_stage = stage]
        ELSE IF chapter = p1.highest_chapter /\ stage >= p1.highest_stage THEN
            [p1 EXCEPT !.highest_stage = stage]
        ELSE p1

\* Step 9 of complete_stage, on the "chapters" dict
UpdateProgression(chapters_prog, chapter, stage) ==
    LET stage_key == <<chapter, stage>>
        completed == IF Contains(chapters_prog.completed_stages, stage_key)
                     THEN chapters_prog.completed_stages
                     ELSE Append(chapters_prog.completed_stages, stage_key)
        p1 == [chapters_prog EXCEPT !.completed_stages = completed]
    IN  IF chapter > p1.highest_chapter THEN
            [p1 EXCEPT !.highest_chapter = chapter, !.highest_stage = stage]
        ELSE IF chapter = p1.highest_chapter /\ stage >= p1.highest_stage THEN
            IF stage = STAGES_PER_CHAPTER
            THEN [p1 EXCEPT !.highest_chapter = chapter + 1, !.highest_stage = 1]
            ELSE [p1 EXCEPT !.highest_stage = stage]
        ELSE p1

\* rewards_data taken from what the client reports
RewardsData_FromLog(session, battle_log) ==
    [session.rewards EXCEPT !.gold = battle_log.stats.total_damage_dealt]

\* rewards_data = session.rewards: of the session row and the request that
\* are both in scope, step 8 reads the row
RewardsData(session, battle_log) == session.rewards

\* `x or default`: an empty dict is falsy
OrDefault(json, default) == IF DOMAIN json # {} THEN json ELSE default

\* Steps 8 and 9 with the gems line left out
ApplyRewards_NoGems(character, session, rewards_data) ==
    LET xp == apply_xp(character.xp, character.level, rewards_data.xp)
        c1 == [character EXCEPT
                 !.gold = @ + rewards_data.gold,
                 !.xp = xp.new_xp,
                 !.level = IF xp.did_level_up THEN xp.new_level ELSE @,
                 !.free_stat_points = IF xp.did_level_up THEN @ + 5 ELSE @,
                 !.inventory = AddItems(OrDefault(@, [items |-> <<>>,
                                                          max_slots |-> 50]),
                                        rewards_data.items),
                 !.progression.chapters =
                     UpdateProgression(@, session.chapter, session.stage)]
    IN  [c1 EXCEPT !.power = calculate_power(c1)]

\* Rewards that grant the stat points once per level gained
ApplyRewards_PerLevel(character, session, rewards_data) ==
    LET xp == apply_xp(character.xp, character.level, rewards_data.xp)
        c1 == [character EXCEPT
                 !.gold = @ + rewards_data.gold,
                 !.gems = @ + rewards_data.gems,
                 !.xp = xp.new_xp,
                 !.level = IF xp.did_level_up THEN xp.new_level ELSE @,
                 !.free_stat_points = IF xp.did_level_up
                                        THEN @ + 5 * (xp.new_level - character.level)
                                        ELSE @,
                 !.inventory = AddItems(OrDefault(@, [items |-> <<>>,
                                                          max_slots |-> 50]),
                                        rewards_data.items),
                 !.progression.chapters =
                     UpdateProgression(@, session.chapter, session.stage)]
    IN  [c1 EXCEPT !.power = calculate_power(c1)]

\* Steps 8 and 9 of complete_stage on the loaded Character object
ApplyRewards(character, session, rewards_data) ==
    LET xp == apply_xp(character.xp, character.level, rewards_data.xp)
        c1 == [character EXCEPT
                 !.gold = @ + rewards_data.gold,
                 !.gems = @ + rewards_data.gems,
                 !.xp = xp.new_xp,
                 !.level = IF xp.did_level_up THEN xp.new_level ELSE @,
                 !.free_stat_points = IF xp.did_level_up THEN @ + 5 ELSE @,
                 !.inventory = AddItems(OrDefault(@, [items |-> <<>>,
                                                          max_slots |-> 50]),
                                        rewards_data.items),
                 !.progression.chapters =
                     UpdateProgression(@, session.chapter, session.stage)]
    IN  [c1 EXCEPT !.power = calculate_power(c1)]

\* `x or default`: a loaded JSON dict that is non-empty is kept and then
\* mutated in place
KeptObject(json) == DOMAIN json # {}

\* The JSON columns whose loaded dict object complete_stage mutates in place
\* and assigns back to the attribute
InPlace(character) ==
    {col \in {"inventory", "progression"} : KeptObject(character[col])}

\* The UPDATE of the characters row that the flush in db.commit() emits.
\* Character.inventory and Character.progression are plain JSON columns
\* (models/character.py: mapped_column(JSON), no mutation tracking), so the
\* unit of work compares each assigned attribute with the value it recorded
\* as committed and writes the column only when they differ.  A dict that
\* was mutated in place IS the recorded committed value: it compares equal
\* and its column is left out.  Columns that are written get the value
\* computed in memory from the row as it was loaded.
FlushCharacter(row, committed, current, in_place) ==
    [col \in DOMAIN row |->
        IF col \notin in_place /\ current[col] # committed[col]
        THEN current[col]
        ELSE row[col]]

\* await get_character_for_user(...): a request arrives and SELECTs its
\* character
CS_LoadCharacter(p, user, character_id) ==
    /\ txn[p].pc = "idle"
    /\ IF get_character_for_user(character_id, user) = {} THEN
           /\ response' = HTTPException("stage_complete", 404,
                                         "Character not found")
           /\ UNCHANGED txn
       ELSE
           /\ txn' = [txn EXCEPT ![p] =
                        [pc |-> "session_lookup",
                         character_id |-> character_id,
                         character |-> characters[character_id]]]
           /\ response' = NoResponse
    /\ UNCHANGED <<now, characters, battle_sessions, granted>>

\* A select by session_token alone
FindSession_AnyOwner(session_token, character_id) ==
    {t \in DOMAIN battle_sessions :
        battle_sessions[t].session_token = session_token}

\* select(BattleSession).where(session_token == ..., character_id == ...):
\* the tokens of the rows returned (0 or 1)
FindSession(session_token, character_id) ==
    {t \in DOMAIN battle_sessions :
        /\ battle_sessions[t].session_token = session_token
        /\ battle_sessions[t].character_id = character_id}

\* The guards with the expiry check ahead of the is_used check
Outcome_ExpiredFirst(found, session, chapter, stage, verdict) ==
    IF found = {} THEN "invalid_token"
    ELSE IF is_expired(session) THEN "expired"
    ELSE IF session.is_used THEN "already_used"
    ELSE IF session.chapter # chapter \/ session.stage # stage THEN "mismatch"
    ELSE IF ~verdict.is_valid THEN "validation_failed"
    ELSE "accepted"

\* Guards 1-6 of complete_stage in the order the code evaluates them: the
\* first that fails decides the outcome.  `session` is read only when
\* `found` is not empty.
Outcome(found, session, chapter, stage, verdict) ==
    IF found = {} THEN "invalid_token"
    ELSE IF session.is_used THEN "already_used"
    ELSE IF is_expired(session) THEN "expired"
    ELSE IF session.chapter # chapter \/ session.stage # stage THEN "mismatch"
    ELSE IF ~verdict.is_valid THEN "validation_failed"
    ELSE "accepted"

\* A handler that spends the session when it rejects the report
CS_LoadSession_BurnOnReject(p, session_token, chapter, stage, variant) ==
    LET character_id == txn[p].character_id
        character == txn[p].character
        found == FindSession(session_token, character_id)
        session == battle_sessions[session_token]
        battle_log == ClientLog(variant, session_token, chapter, stage)
        verdict == validate_battle_log(battle_log, session.chapter,
                                       session.stage, session.mob_config,
                                       session.created_at)
        outcome == Outcome(found, session, chapter, stage, verdict)
        respond(r) == /\ response' = r
                      /\ txn' = [txn EXCEPT ![p] = [pc |-> "idle"]]
    IN  /\ txn[p].pc = "session_lookup"
        /\ CASE outcome = "invalid_token" ->
                  /\ respond(HTTPException("stage_complete", 400,
                                           "Invalid session token"))
                  /\ UNCHANGED battle_sessions
             [] outcome = "already_used" ->
                  /\ respond(Rejected(TRUE, "Session already used"))
                  /\ UNCHANGED battle_sessions
             [] outcome = "expired" ->
                  /\ respond(Rejected(FALSE, "Session expired"))
                  /\ UNCHANGED battle_sessions
             [] outcome = "mismatch" ->
                  /\ respond(Rejected(FALSE, "Chapter/stage mismatch"))
                  /\ UNCHANGED battle_sessions
             [] outcome = "validation_failed" ->
                  /\ respond(Rejected(FALSE,
                              "Battle validation failed: " \o verdict.error))
                  /\ battle_sessions' =
                        [battle_sessions EXCEPT ![session_token] =
                            [@ EXCEPT !.is_used = TRUE, !.used_at = <<now>>]]
             [] outcome = "accepted" ->
                  /\ txn' = [txn EXCEPT ![p] =
                        [pc |-> "commit",
                         character_id |-> character_id,
                         committed |-> character,
                         character |->
                             ApplyRewards(character, session,
                                          RewardsData(session, battle_log)),
                         in_place |-> InPlace(character),
                         session_token |-> session_token,
                         used_at |-> now,
                         battle_log |-> battle_log]]
                  /\ response' = NoResponse
                  /\ UNCHANGED battle_sessions
        /\ UNCHANGED <<now, characters, granted>>

\* await db.execute(select(BattleSession)...) and everything up to the next
\* await: guards 1-6 and, when they pass, steps 7-9 on the loaded objects
CS_LoadSessionLog(p, session_token, chapter, stage, battle_log) ==
    LET character_id == txn[p].character_id
        character == txn[p].character
        found == FindSession(session_token, character_id)
        session == battle_sessions[session_token]
        verdict == validate_battle_log(battle_log, session.chapter,
                                       session.stage, session.mob_config,
                                       session.created_at)
        outcome == Outcome(found, session, chapter, stage, verdict)
        respond(r) == /\ response' = r
                      /\ txn' = [txn EXCEPT ![p] = [pc |-> "idle"]]
    IN  /\ txn[p].pc = "session_lookup"
        /\ CASE outcome = "invalid_token" ->
                  respond(HTTPException("stage_complete", 400,
                                        "Invalid session token"))
             [] outcome = "already_used" ->
                  respond(Rejected(TRUE, "Session already used"))
             [] outcome = "expired" ->
                  respond(Rejected(FALSE, "Session expired"))
             [] outcome = "mismatch" ->
                  respond(Rejected(FALSE, "Chapter/stage mismatch"))
             [] outcome = "validation_failed" ->
                  respond(Rejected(FALSE,
                              "Battle validation failed: " \o verdict.error))
             [] outcome = "accepted" ->
                  /\ txn' = [txn EXCEPT ![p] =
                        [pc |-> "commit",
                         character_id |-> character_id,
                         committed |-> character,
                         character |->
                             ApplyRewards(character, session,
                                          RewardsData(session, battle_log)),
                         in_place |-> InPlace(character),
                         session_token |-> session_token,
                         used_at |-> now,
                         battle_log |-> battle_log]]
                  /\ response' = NoResponse
        /\ UNCHANGED <<now, characters, battle_sessions, granted>>

\* The step for the request of a client that sends the log of `variant`
CS_LoadSession(p, session_token, chapter, stage, variant) ==
    CS_LoadSessionLog(p, session_token, chapter, stage,
                      ClientLog(variant, session_token, chapter, stage))

\* The step for a request whose body the worker already holds
CS_LoadSessionRequest(p) ==
    /\ "request" \in DOMAIN txn[p]
    /\ CS_LoadSessionLog(p, txn[p].request.session_token,
                         txn[p].request.chapter, txn[p].request.stage,
                         txn[p].request.battle_log)

\* A flush that leaves is_used out of the UPDATE
FlushSession_KeepUnused(row, used_at) ==
    [row EXCEPT !.used_at = <<used_at>>]

\* A flush that also ends the lifetime of the session it marks used
FlushSession_CloseLifetime(row, used_at) ==
    [row EXCEPT !.is_used = TRUE, !.used_at = <<used_at>>, !.expires_at = used_at]

\* The UPDATE of the battle_sessions row that the flush in db.commit() emits
FlushSession(row, used_at) ==
    [row EXCEPT !.is_used = TRUE, !.used_at = <<used_at>>]

\* await db.commit() and the response built after it
CS_Commit(p) ==
    LET t == txn[p]
        session == battle_sessions[t.session_token]
        xp == apply_xp(t.committed.xp, t.committed.level, session.rewards.xp)
        chapters_prog == t.character.progression.chapters
    IN  /\ t.pc = "commit"
        /\ battle_sessions' =
              [battle_sessions EXCEPT ![t.session_token] =
                  FlushSession(@, t.used_at)]
        /\ characters' =
              [characters EXCEPT ![t.character_id] =
                  FlushCharacter(@, t.committed, t.character, t.in_place)]
        /\ response' =
              StageCompleteResponse(TRUE, FALSE, "",
                  << [gold |-> session.rewards.gold,
                      gems |-> session.rewards.gems,
                      xp |-> session.rewards.xp,
                      items |-> session.rewards.items] >>,
                  << chapters_prog >>,
                  xp.did_level_up,
                  IF xp.did_level_up THEN <<xp.new_level>> ELSE <<>>)
        /\ granted' = [granted EXCEPT ![t.session_token] = @ + 1]
        /\ txn' = [txn EXCEPT ![p] = [pc |-> "idle"]]
        /\ UNCHANGED now

\* ------------------------------------------------------------ store failures
\* An await on the store raises: the exception leaves the handler, get_db
\* closes the AsyncSession without a commit and the client gets a 500.
CS_CharacterLookupFails(p) ==
    /\ txn[p].pc = "idle"
    /\ response' = ServerError("stage_complete", "character_lookup")
    /\ UNCHANGED <<now, characters, battle_sessions, txn, granted>>

CS_SessionLookupFails(p) ==
    /\ txn[p].pc = "session_lookup"
    /\ response' = ServerError("stage_complete", "session_lookup")
    /\ txn' = [txn EXCEPT ![p] = [pc |-> "idle"]]
    /\ UNCHANGED <<now, characters, battle_sessions, granted>>

\* A commit that fails after the UPDATE of the session row became durable
CS_CommitFails_Partial(p) ==
    /\ txn[p].pc = "commit"
    /\ battle_sessions' =
          [battle_sessions EXCEPT ![txn[p].session_token] =
              FlushSession(@, txn[p].used_at)]
    /\ response' = ServerError("stage_complete", "commit")
    /\ txn' = [txn EXCEPT ![p] = [pc |-> "idle"]]
    /\ UNCHANGED <<now, characters, granted>>

CS_CommitFails(p) ==
    /\ txn[p].pc = "commit"
    /\ response' = ServerError("stage_complete", "commit")
    /\ txn' = [txn EXCEPT ![p] = [pc |-> "idle"]]
    /\ UNCHANGED <<now, characters, battle_sessions, granted>>

get_stage_config_fails ==
    /\ response' = ServerError("stage_config", "commit")
    /\ UNCHANGED <<now, characters, battle_sessions, txn, granted>>

\* The worker dies while a request is between two awaits: its uncommitted
\* transaction is rolled back by the store and no response is sent.
Crash(p) ==
    /\ txn[p].pc # "idle"
    /\ txn' = [txn EXCEPT ![p] = [pc |-> "idle"]]
    /\ response' = NoResponse
    /\ UNCHANGED <<now, characters, battle_sessions, granted>>

\* ------------------------------------------------------------ save_character
\* PUT /characters/{id}: the fields of CharacterSaveRequest that are columns
\* of the modelled row (stats, equipped, potions, skills and shop are not);
\* None is <<>>, a value v is <<v>>.  One step: the handler writes only
\* the row it loaded.
save_character(user, character_id, request) ==
    LET found == get_character_for_user(character_id, user)
        character == characters[character_id]
        c1 == [character EXCEPT
                 !.gold = IF request.gold # <<>> THEN request.gold[1] ELSE @,
                 !.gems = IF request.gems # <<>> THEN request.gems[1] ELSE @,
                 !.free_stat_points =
                     IF request.free_stat_points # <<>>
                     THEN request.free_stat_points[1] ELSE @,
                 !.inventory =
                     IF request.inventory # <<>> THEN request.inventory[1] ELSE @]
        saved == [c1 EXCEPT !.power = calculate_power(c1)]
    IN  /\ IF found = {} THEN
               /\ response' = HTTPException("save_character", 404,
                                             "Character not found")
               /\ UNCHANGED characters
           ELSE
               /\ characters' = [characters EXCEPT ![character_id] = saved]
               /\ response' = [op |-> "save_character", status |-> 200,
                                detail |-> "", body |-> saved]
        /\ UNCHANGED <<now, battle_sessions, txn, granted>>

\* ------------------------------------------------------------ request inputs
CharacterIds == Users \X Names
Tokens == 1..MaxSessions
Seeds == 0..MaxSeed
ConfigCoords == {<<1, 1>>, <<1, 2>>, <<21, 1>>, <<1, 0>>}
AllConfigCoords ==
    ConfigCoords \cup {<<2, 1>>, <<0, 1>>, <<1, 11>>, <<20, 10>>}
CompleteCoords == {<<1, 1>>, <<1, 2>>}

\* --------------------------------------------------------------------- specs
NewRequest(workers) ==
    \/ \E user \in Users, name \in Names : create_character(user, name)
    \/ \E user \in Users, c \in CharacterIds, cs \in ConfigCoords, seed \in Seeds :
          get_stage_config(user, c, cs[1], cs[2], seed, 0)
    \/ get_stage_config_fails
    \/ \E p \in workers, user \in Users, c \in CharacterIds :
          CS_LoadCharacter(p, user, c)
    \/ \E p \in workers : CS_CharacterLookupFails(p)

RequestStep(workers) ==
    \/ \E p \in workers, t \in Tokens, cs \in CompleteCoords, v \in LogVariants :
          CS_LoadSession(p, t, cs[1], cs[2], v)
    \/ \E p \in workers : CS_Commit(p)
    \/ \E p \in workers : CS_SessionLookupFails(p)
    \/ \E p \in workers : CS_CommitFails(p)
    \/ \E p \in workers : Crash(p)

\* One worker: requests are handled one at a time, each running from its
\* first await to its response (or failure) before the next one starts.
\* Here a session row is flushed in the second its expiry was computed in;
\* NextClock has the later flushes
Quiet == \A p \in Procs : txn[p].pc = "idle"

Next == Tick \/ (Quiet /\ NewRequest({"p1"})) \/ RequestStep({"p1"})

Spec == Init /\ [][Next]_vars

\* Character creation and stage-config requests only, over every kind of
\* chapter and stage a request can name
NextConfig ==
    \/ \E user \in Users, name \in Names : create_character(user, name)
    \/ \E user \in Users, c \in CharacterIds, cs \in AllConfigCoords, seed \in Seeds :
          get_stage_config(user, c, cs[1], cs[2], seed, 0)
    \/ get_stage_config_fails

SpecConfig == Init /\ [][NextConfig]_vars

\* Character creation and stage-config requests while time passes, the
\* session row flushed up to MaxDelay seconds after the handler read the clock
NextClock ==
    \/ Tick
    \/ \E user \in Users, name \in Names : create_character(user, name)
    \/ \E user \in Users, c \in CharacterIds, cs \in ConfigCoords, seed \in Seeds,
          delay \in FlushDelays :
             get_stage_config(user, c, cs[1], cs[2], seed, delay)
    \/ get_stage_config_fails

SpecClock == Init /\ [][NextClock]_vars

\* The battle logs a client can send for `session`: each field the
\* validator reads on, just inside and just outside its threshold, and the
\* level, which it does not read
ReportedDamage(code, total_health, player_power) ==
    CASE code = "under_half" -> (total_health + 1) \div 2 - 1
      [] code = "half" -> (total_health + 1) \div 2
      [] code = "ceiling" -> player_power * MAX_DAMAGE_PER_POWER * 100
      [] code = "over_ceiling" -> player_power * MAX_DAMAGE_PER_POWER * 100 + 1

ReportedLogs(session) ==
    LET ts == session.created_at * 1000
        n == Len(session.mob_config)
        h == SumSeq([i \in 1..n |-> session.mob_config[i].health])
    IN  { [chapter |-> cs[1], stage |-> cs[2],
           battle_start_time |-> start, battle_end_time |-> start + length,
           player_level |-> level, player_power |-> power,
           stats |-> [mobs_killed |-> kills,
                      total_damage_dealt |-> ReportedDamage(code, h, power),
                      duration_ms |-> length + slack]] :
          cs \in {<<session.chapter, session.stage>>,
                  <<session.chapter, session.stage + 1>>,
                  <<session.chapter + 1, session.stage>>},
          start \in {ts - 5001, ts - 5000, ts},
          length \in {4999, 5000, 600000, 600001},
          level \in {1, 3},
          power \in {1, 100},
          kills \in {n - 1, n, n + 1},
          code \in {"under_half", "half", "ceiling", "over_ceiling"},
          slack \in {0 - 1001, 0 - 1000, 0, 1000, 1001} }

\* complete_stage about to look up the session of its request, after one
\* character was created and given a session for stage 1-1: the request
\* names that session and carries any of the logs above
InitValidator ==
    LET id == <<"u1", "Hero">>
    IN  /\ now = TickStep
        /\ characters = (id :> NewCharacter("u1", "Hero"))
        /\ \E seed \in Seeds :
              battle_sessions = <<NewBattleSession(1, id, 1, 1, seed, now, now)>>
        /\ \E battle_log \in ReportedLogs(battle_sessions[1]) :
              txn = [p \in Procs |->
                       IF p = "p1"
                       THEN [pc |-> "session_lookup",
                             character_id |-> id,
                             character |-> characters[id],
                             request |-> [session_token |-> 1,
                                          chapter |-> 1, stage |-> 1,
                                          battle_log |-> battle_log]]
                       ELSE [pc |-> "idle"]]
        /\ response = NoResponse
        /\ granted = <<0>>

NextValidator == CS_LoadSessionRequest("p1") \/ CS_Commit("p1")

SpecValidator == InitValidator /\ [][NextValidator]_vars

\* Step 9 of complete_stage applied completion after completion to the
\* progression of one character, each result the input of the next.  A
\* completion is accepted only for a session, and get_stage_config makes a
\* session only for a chapter and stage in range that the progression has
\* unlocked.  (On the stored row the dict stays as created, see
\* FlushCharacter: there only the first application is ever made.)
InitProgression ==
    /\ now = 0
    /\ characters = (<<"u1", "Hero">> :> NewCharacter("u1", "Hero"))
    /\ battle_sessions = <<>>
    /\ txn = [p \in Procs |-> [pc |-> "idle"]]
    /\ response = NoResponse
    /\ granted = <<>>

UpdateProgressionStep(c, chapter, stage) ==
    /\ c \in DOMAIN characters
    /\ chapter \in 1..TOTAL_CHAPTERS
    /\ stage \in 1..STAGES_PER_CHAPTER
    /\ is_stage_unlocked(characters[c], chapter, stage)
    /\ characters' = [characters EXCEPT ![c].progression.chapters =
                          UpdateProgression(@, chapter, stage)]
    /\ UNCHANGED <<now, battle_sessions, txn, response, granted>>

NextProgression ==
    \E c \in CharacterIds, chapter \in 1..TOTAL_CHAPTERS,
       stage \in 1..STAGES_PER_CHAPTER : UpdateProgressionStep(c, chapter, stage)

SpecProgression == InitProgression /\ [][NextProgression]_vars

\* Sessions handed out by get_stage_config and completed later, several of
\* them outstanding at once, for a character that has completed the first
\* k stages of the game in order.  A request names the stage completed
\* last, the stage after it or the one after that.  The completion is step
\* 9 of complete_stage applied to the stored progression, one completion at
\* a time.  (On the stored row the dict stays as created, see
\* FlushCharacter: there k is 0 and stays 0.)
StageOfNumber(n) == <<((n - 1) \div STAGES_PER_CHAPTER) + 1, ((n - 1) % STAGES_PER_CHAPTER) + 1>>

NumberOfStage(cs) == (cs[1] - 1) * STAGES_PER_CHAPTER + cs[2]

\* The "chapters" dict after the first k stages were completed in order:
\* what UpdateProgression has made of the default by then
ProgressionAfter(k) ==
    LET last == StageOfNumber(k)
    IN  [highest_chapter |-> IF k = 0 THEN 1
                             ELSE IF last[2] = STAGES_PER_CHAPTER THEN last[1] + 1
                             ELSE last[1],
         highest_stage |-> IF k = 0 \/ last[2] = STAGES_PER_CHAPTER THEN 1
                           ELSE last[2],
         completed_stages |-> [n \in 1..k |-> StageOfNumber(n)]]

FrontierCoords(character) ==
    LET completed == get_completed_stages(character)
        n == IF completed = <<>> THEN 0
             ELSE NumberOfStage(completed[Len(completed)])
    IN  {StageOfNumber(m) : m \in {Max(n, 1), n + 1, n + 2}}

InitOutstanding ==
    /\ now = 0
    /\ \E k \in 0..(TOTAL_CHAPTERS * STAGES_PER_CHAPTER) :
          characters = (<<"u1", "Hero">> :>
                           [NewCharacter("u1", "Hero") EXCEPT
                               !.progression.chapters = ProgressionAfter(k)])
    /\ battle_sessions = <<>>
    /\ txn = [p \in Procs |-> [pc |-> "idle"]]
    /\ response = NoResponse
    /\ granted = <<>>

CompleteOutstanding(session_token) ==
    /\ session_token \in DOMAIN battle_sessions
    /\ ~battle_sessions[session_token].is_used
    /\ ~is_expired(battle_sessions[session_token])
    /\ battle_sessions' = [battle_sessions EXCEPT ![session_token] =
                              FlushSession(@, now)]
    /\ characters' =
          [characters EXCEPT
              ![battle_sessions[session_token].character_id].progression.chapters =
                  UpdateProgression(@, battle_sessions[session_token].chapter,
                                    battle_sessions[session_token].stage)]
    /\ granted' = [granted EXCEPT ![session_token] = @ + 1]
    /\ response' = NoResponse
    /\ UNCHANGED <<now, txn>>

NextOutstanding ==
    \/ \E c \in DOMAIN characters :
          \E cs \in FrontierCoords(characters[c]) :
             get_stage_config(characters[c].user_id, c, cs[1], cs[2], 0, 0)
    \/ \E session_token \in Tokens : CompleteOutstanding(session_token)

SpecOutstanding == InitOutstanding /\ [][NextOutstanding]_vars

\* complete_stage about to look up the session of its request, for a
\* character that has gathered xp and a session of an early or a late
\* stage; the request carries the honest log.  (On the stored row the
\* progression stays as created, see FlushCharacter, so the running program
\* hands out sessions of stage 1-1 only, worth 100 xp.)
XpValues == {100 * k : k \in 0..MaxXpSteps}

LevelCoords == {<<1, 1>>, <<1, 10>>, <<2, 10>>, <<5, 10>>}

InitLevels ==
    LET id == <<"u1", "Hero">>
    IN  /\ now = TickStep
        /\ \E xp \in XpValues :
              LET level == calculate_level_from_xp(xp)
                  c1 == [NewCharacter("u1", "Hero") EXCEPT
                            !.xp = xp,
                            !.level = level,
                            !.free_stat_points = 5 * (level - 1)]
              IN  characters = (id :> [c1 EXCEPT !.power = calculate_power(c1)])
        /\ \E seed \in Seeds, cs \in LevelCoords :
              battle_sessions =
                  <<NewBattleSession(1, id, cs[1], cs[2], seed, now, now)>>
        /\ txn = [p \in Procs |->
                   IF p = "p1"
                   THEN [pc |-> "session_lookup",
                         character_id |-> id,
                         character |-> characters[id],
                         request |->
                            [session_token |-> 1,
                             chapter |-> battle_sessions[1].chapter,
                             stage |-> battle_sessions[1].stage,
                             battle_log |->
                                BattleLog("honest", battle_sessions[1].chapter,
                                          battle_sessions[1].stage,
                                          battle_sessions[1].mob_config,
                                          battle_sessions[1].created_at)]]
                   ELSE [pc |-> "idle"]]
        /\ response = NoResponse
        /\ granted = <<0>>

NextLevels == CS_LoadSessionRequest("p1") \/ CS_Commit("p1")

SpecLevels == InitLevels /\ [][NextLevels]_vars

\* RewardsCalculator.apply_xp called on xp amounts at and next to the level
\* thresholds (400, 900, 1600), for every current level up to MaxLevel; the
\* worker holds the arguments, the response its return value
GainValues == {0, 1, 150, 399, 400, 500, 899, 900, 1599, 1600}

InitApplyXp ==
    /\ now = 0
    /\ characters = <<>>
    /\ battle_sessions = <<>>
    /\ \E current_xp \in XpValues \cup {1, 399}, current_level \in 1..MaxLevel,
          xp_gained \in GainValues :
             txn = [p \in Procs |->
                      IF p = "p1"
                      THEN [pc |-> "apply_xp",
                            current_xp |-> current_xp,
                            current_level |-> current_level,
                            xp_gained |-> xp_gained]
                      ELSE [pc |-> "idle"]]
    /\ response = NoResponse
    /\ granted = <<>>

apply_xp_call(p) ==
    /\ txn[p].pc = "apply_xp"
    /\ response' = [op |-> "apply_xp", status |-> 0, detail |-> "",
                    body |-> apply_xp(txn[p].current_xp, txn[p].current_level,
                                      txn[p].xp_gained)]
    /\ txn' = [txn EXCEPT ![p].pc = "returned"]
    /\ UNCHANGED <<now, characters, battle_sessions, granted>>

NextApplyXp == apply_xp_call("p1")

SpecApplyXp == InitApplyXp /\ [][NextApplyXp]_vars

\* StageGenerator called for every chapter and stage of the game: the worker
\* holds the arguments (and the state of the random source), the response
\* what the calls of get_stage_config return
InitGenerator ==
    /\ now = 0
    /\ characters = <<>>
    /\ battle_sessions = <<>>
    /\ \E chapter \in 1..TOTAL_CHAPTERS, stage \in 1..STAGES_PER_CHAPTER,
          seed \in Seeds :
             txn = [p \in Procs |->
                      IF p = "p1"
                      THEN [pc |-> "generate", chapter |-> chapter,
                            stage |-> stage, seed |-> seed]
                      ELSE [pc |-> "idle"]]
    /\ response = NoResponse
    /\ granted = <<>>

generate_stage_call(p) ==
    LET chapter == txn[p].chapter
        stage == txn[p].stage
        mobs == generate_stage_mobs(chapter, stage, txn[p].seed)
    IN  /\ txn[p].pc = "generate"
        /\ response' =
              [op |-> "generate_stage", status |-> 0, detail |-> "",
               body |-> [difficulty_multiplier |->
                             get_difficulty_multiplier(chapter, stage),
                         mobs |-> mobs,
                         rewards |-> generate_stage_rewards(chapter, stage, mobs)]]
        /\ txn' = [txn EXCEPT ![p].pc = "returned"]
        /\ UNCHANGED <<now, characters, battle_sessions, granted>>

NextGenerator == generate_stage_call("p1")

SpecGenerator == InitGenerator /\ [][NextGenerator]_vars

\* RewardsCalculator.generate_stage_item_drops statement by statement, each
\* roll with its own outcome of the drop draw.  The draws are in thousandths
\* and lie next to, never on, a drop chance (the chances are multiples of
\* 0.01); the rarity draw and the slot are the same for all rolls of a call.
DropDraws ==
    {0, 999} \cup {50 + chapter * 10 - 1 : chapter \in 1..TOTAL_CHAPTERS}
             \cup {50 + chapter * 10 + 1 : chapter \in 1..TOTAL_CHAPTERS}

InitDrops ==
    /\ now = 0
    /\ characters = <<>>
    /\ battle_sessions = <<>>
    /\ \E chapter \in 1..TOTAL_CHAPTERS, stage \in 1..STAGES_PER_CHAPTER,
          seed \in Seeds :
             txn = [p \in Procs |->
                      IF p = "p1"
                      THEN [pc |-> "boss_drop", chapter |-> chapter,
                            stage |-> stage,
                            num_mobs |-> Len(generate_stage_mobs(chapter, stage, seed)),
                            rarity_roll |-> RandomRoll(seed),
                            rolled |-> 0,
                            items |-> <<>>]
                      ELSE [pc |-> "idle"]]
    /\ response = NoResponse
    /\ granted = <<>>

\* if stage == 10: the guaranteed roll
drops_boss_roll(p) ==
    /\ txn[p].pc = "boss_drop"
    /\ \E drop_roll \in DropDraws :
          txn' = [txn EXCEPT
                    ![p].pc = "mob_drops",
                    ![p].items =
                        IF txn[p].stage = 10
                        THEN @ \o roll_item_drop_draws(txn[p].chapter, txn[p].stage,
                                     1000, drop_roll, txn[p].rarity_roll, 0)
                        ELSE @]
    /\ response' = NoResponse
    /\ UNCHANGED <<now, characters, battle_sessions, granted>>

\* for _ in range(num_mobs): one roll at the base drop chance
drops_mob_roll(p) ==
    /\ txn[p].pc = "mob_drops"
    /\ txn[p].rolled < txn[p].num_mobs
    /\ \E drop_roll \in DropDraws :
          txn' = [txn EXCEPT
                    ![p].rolled = @ + 1,
                    ![p].items =
                        @ \o roll_item_drop_draws(txn[p].chapter, txn[p].stage,
                                     50 + txn[p].chapter * 10, drop_roll,
                                     txn[p].rarity_roll, 0)]
    /\ response' = NoResponse
    /\ UNCHANGED <<now, characters, battle_sessions, granted>>

\* return items
drops_return(p) ==
    /\ txn[p].pc = "mob_drops"
    /\ txn[p].rolled = txn[p].num_mobs
    /\ response' = [op |-> "generate_stage_item_drops", status |-> 0,
                    detail |-> "", body |-> txn[p].items]
    /\ txn' = [txn EXCEPT ![p].pc = "returned"]
    /\ UNCHANGED <<now, characters, battle_sessions, granted>>

NextDrops == drops_boss_roll("p1") \/ drops_mob_roll("p1") \/ drops_return("p1")

SpecDrops == InitDrops /\ [][NextDrops]_vars

\* Two stage-config calls for the same chapter and stage, each with its own
\* state of the random source: each worker holds the arguments of its call
\* and, once it has returned, the body get_stage_config answers with
InitTwoConfigs ==
    /\ now = 0
    /\ characters = <<>>
    /\ battle_sessions = <<>>
    /\ \E chapter \in 1..TOTAL_CHAPTERS, stage \in 1..STAGES_PER_CHAPTER,
          seed1 \in Seeds, seed2 \in Seeds :
             txn = [p \in Procs |->
                      [pc |-> "generate", chapter |-> chapter, stage |-> stage,
                       seed |-> IF p = "p1" THEN seed1 ELSE seed2]]
    /\ response = NoResponse
    /\ granted = <<>>

stage_config_values(p) ==
    LET battle_session == NewBattleSession(1, <<"u1", "Hero">>, txn[p].chapter,
                                           txn[p].stage, txn[p].seed, now, now)
        r == StageConfigResponse(battle_session, battle_session.mob_config,
                                 battle_session.rewards)
    IN  /\ txn[p].pc = "generate"
        /\ response' = r
        /\ txn' = [txn EXCEPT ![p] = [pc |-> "returned", chapter |-> @.chapter,
                                      stage |-> @.stage, seed |-> @.seed,
                                      config |-> r.body]]
        /\ UNCHANGED <<now, characters, battle_sessions, granted>>

NextTwoConfigs == \E p \in Procs : stage_config_values(p)

SpecTwoConfigs == InitTwoConfigs /\ [][NextTwoConfigs]_vars

\* RewardsCalculator.roll_item_drop called with a drop chance of 1.0 for
\* every chapter and every outcome of the rarity draw.  The draws are in
\* thousandths and lie between, never on, the values a threshold can take
\* (the thresholds are multiples of 0.005).
RarityDraws == {r \in 0..999 : r % 5 # 0}

InitRarity ==
    /\ now = 0
    /\ characters = <<>>
    /\ battle_sessions = <<>>
    /\ \E chapter \in 1..TOTAL_CHAPTERS, rarity_roll \in RarityDraws :
          txn = [p \in Procs |->
                   IF p = "p1"
                   THEN [pc |-> "roll_item_drop", chapter |-> chapter,
                         stage |-> 10, rarity_roll |-> rarity_roll]
                   ELSE [pc |-> "idle"]]
    /\ response = NoResponse
    /\ granted = <<>>

roll_item_drop_call(p) ==
    /\ txn[p].pc = "roll_item_drop"
    /\ response' = [op |-> "roll_item_drop", status |-> 0, detail |-> "",
                    body |-> roll_item_drop_draws(txn[p].chapter, txn[p].stage,
                                 1000, 0, txn[p].rarity_roll, 0)]
    /\ txn' = [txn EXCEPT ![p].pc = "returned"]
    /\ UNCHANGED <<now, characters, battle_sessions, granted>>

NextRarity == roll_item_drop_call("p1")

SpecRarity == InitRarity /\ [][NextRarity]_vars

\* The save requests clients send: currencies and stat points set, or the
\* inventory replaced by an empty dict
SaveRequests ==
    { [gold |-> <<5000>>, gems |-> <<0>>, free_stat_points |-> <<99>>,
       inventory |-> <<>>],
      [gold |-> <<>>, gems |-> <<>>, free_stat_points |-> <<>>,
       inventory |-> << <<>> >>] }

\* One worker, with the character save request; no session expires
NextSave ==
    \/ Quiet /\ NewRequest({"p1"})
    \/ RequestStep({"p1"})
    \/ /\ Quiet
       /\ \E user \in Users, c \in CharacterIds, request \in SaveRequests :
             save_character(user, c, request)

SpecSave == Init /\ [][NextSave]_vars

\* Two workers: two stage-complete requests run at the same time on a
\* character that was created and then requested stage 1-1 twice
InitRace ==
    LET id == <<"u1", "Hero">>
        s1 == NewBattleSession(1, id, 1, 1, 0, 0, 0)
        s2 == NewBattleSession(2, id, 1, 1, 1, 0, 0)
    IN  /\ now = 0
        /\ characters = (id :> NewCharacter("u1", "Hero"))
        /\ battle_sessions = <<s1, s2>>
        /\ txn = [p \in Procs |-> [pc |-> "idle"]]
        /\ response = StageConfigResponse(s2, s2.mob_config, s2.rewards)
        /\ granted = <<0, 0>>

NextRace ==
    \/ Tick
    \/ \E p \in Procs, user \in Users, c \in CharacterIds :
          CS_LoadCharacter(p, user, c)
    \/ RequestStep(Procs)

SpecRace == InitRace /\ [][NextRace]_vars

\* No state of Spec is the initial state of SpecRace: false, TLC's
\* counterexample under Spec is a run of Spec that ends in InitRace
InitRaceReached ==
    LET id == <<"u1", "Hero">>
    IN  ~ /\ now = 0
          /\ DOMAIN characters = {id}
          /\ Len(battle_sessions) = 2
          /\ battle_sessions[1] = NewBattleSession(1, id, 1, 1, 0, 0, 0)
          /\ battle_sessions[2] = NewBattleSession(2, id, 1, 1, 1, 0, 0)
          /\ Quiet
          /\ response.op = "stage_config" /\ response.status = 200
          /\ granted = <<0, 0>>

\* ==================================================================== claims
\* What the sessions a character owns and has consumed add up to
RECURSIVE ConsumedSum(_, _, _)
ConsumedSum(c, field, n) ==
    IF n = 0 THEN 0
    ELSE (IF battle_sessions[n].character_id = c /\ battle_sessions[n].is_used
          THEN battle_sessions[n].rewards[field] ELSE 0)
         + ConsumedSum(c, field, n - 1)

Consumed(c, field) == ConsumedSum(c, field, Len(battle_sessions))

\* The requests whose session lookup can be the step being taken
AtSessionLookup == {p \in Procs : txn[p].pc = "session_lookup"}

\* C1: when two stage-complete requests carrying the same token run
\* concurrently, at most one success:true response is sent for that token
\* and the character holds the session's gold, gems and xp at most once.
C1_AtMostOneSuccess ==
    /\ \A t \in DOMAIN granted : granted[t] <= 1
    /\ \A c \in DOMAIN characters :
          /\ characters[c].gold <= 100 + Consumed(c, "gold")
          /\ characters[c].gems <= 10 + Consumed(c, "gems")
          /\ characters[c].xp <= Consumed(c, "xp")

\* C2: when the same token is submitted twice in sequence with a valid log,
\* the first request is accepted and answered success:true; every request
\* for a token that was already answered success:true is answered
\* success:false, already_completed:true and leaves the persisted characters
\* (gold, gems, xp, level, free stat points, inventory, progression) and
\* sessions as they were.
C2_ReplayRejected ==
    [][/\ \A p \in AtSessionLookup, t \in Tokens, cs \in CompleteCoords, v \in LogVariants :
            LET s == battle_sessions[t]
                verdict == validate_battle_log(
                               ClientLog(v, t, cs[1], cs[2]), s.chapter,
                               s.stage, s.mob_config, s.created_at)
            IN  /\ CS_LoadSession(p, t, cs[1], cs[2], v)
                /\ FindSession(t, txn[p].character_id) # {}
                => /\ ( /\ granted[t] = 0
                        /\ ~is_expired(s)
                        /\ s.chapter = cs[1] /\ s.stage = cs[2]
                        /\ verdict.is_valid )
                      => /\ txn'[p].pc = "commit"
                         /\ txn'[p].session_token = t
                   /\ granted[t] >= 1
                      => /\ response' = Rejected(TRUE, "Session already used")
                         /\ characters' = characters
                         /\ battle_sessions' = battle_sessions
      /\ \A p \in Procs :
            CS_Commit(p) => /\ response'.status = 200
                            /\ response'.body.success
                            /\ ~response'.body.already_completed
     ]_vars

\* C2 witness: a replay of a token that was answered success:true once has
\* just been rejected
C2_Witness ==
    /\ response = Rejected(TRUE, "Session already used")
    /\ \E t \in DOMAIN granted : granted[t] = 1 /\ battle_sessions[t].is_used

\* C3: with requests handled one at a time, every character's gold is its
\* starting gold plus the rewards.gold of exactly the sessions it owns that
\* are used; likewise gems and xp.
C3_CurrencyIsConsumedSum ==
    \A c \in DOMAIN characters :
        /\ characters[c].gold = NewCharacter(c[1], c[2]).gold + Consumed(c, "gold")
        /\ characters[c].gems = NewCharacter(c[1], c[2]).gems + Consumed(c, "gems")
        /\ characters[c].xp = NewCharacter(c[1], c[2]).xp + Consumed(c, "xp")

\* C3 witness: a character that consumed two sessions while another
\* character owns none
C3_Witness ==
    /\ Len(battle_sessions) = 2
    /\ Cardinality(DOMAIN characters) = 2
    /\ \A t \in DOMAIN battle_sessions :
          /\ battle_sessions[t].is_used
          /\ battle_sessions[t].character_id = battle_sessions[1].character_id

\* C4: a session whose is_used is true keeps it true in every later state.
C4_UsedStaysUsed ==
    [][\A t \in DOMAIN battle_sessions :
          battle_sessions[t].is_used
          => /\ t \in DOMAIN battle_sessions'
             /\ battle_sessions'[t].is_used
             /\ battle_sessions'[t].session_token = battle_sessions[t].session_token
      ]_vars

\* C4 witness: a session was consumed, and a later stage-config request has
\* inserted another session
C4_Witness ==
    /\ response.op = "stage_config" /\ response.status = 200
    /\ \E t, u \in DOMAIN battle_sessions :
          /\ battle_sessions[t].is_used
          /\ ~battle_sessions[u].is_used
          /\ battle_sessions[t].used_at[1] < battle_sessions[u].created_at

\* C5: what an accepted stage-complete grants is what the session stored
\* when stage-config created it, and two accepted requests that loaded the
\* same character row and session but carry different battle logs hold the
\* same character (gold, gems, xp, level, inventory, progression) to commit.
C5_RewardsFromSnapshot ==
    \A p \in Procs :
        txn[p].pc = "commit" =>
            LET t == txn[p]
                s == battle_sessions[t.session_token]
            IN  /\ t.character.gold = t.committed.gold + s.rewards.gold
                /\ t.character.gems = t.committed.gems + s.rewards.gems
                /\ t.character.xp = t.committed.xp + s.rewards.xp
                /\ t.character.inventory.items =
                       t.committed.inventory.items \o s.rewards.items
                /\ \A q \in Procs :
                      ( /\ txn[q].pc = "commit"
                        /\ txn[q].session_token = t.session_token
                        /\ txn[q].committed = t.committed )
                      => /\ txn[q].character = t.character
                         /\ txn[q].in_place = t.in_place

\* C5 witness: two accepted requests for the same session and the same
\* character row that differ in their battle logs
C5_Witness ==
    /\ txn["p1"].pc = "commit" /\ txn["p2"].pc = "commit"
    /\ txn["p1"].session_token = txn["p2"].session_token
    /\ txn["p1"].committed = txn["p2"].committed
    /\ txn["p1"].battle_log # txn["p2"].battle_log
    /\ battle_sessions[txn["p1"].session_token].rewards.items # <<>>

\* C6: in every persisted state a used session's rewards (currency, xp,
\* items, progression) are on the owning character, and a character holds
\* no rewards of a session that is not used.
C6_DurableTogether ==
    /\ C3_CurrencyIsConsumedSum
    /\ \A t \in DOMAIN battle_sessions :
          LET s == battle_sessions[t]
              c == characters[s.character_id]
          IN  /\ s.is_used
                 => /\ Contains(get_completed_stages(c), <<s.chapter, s.stage>>)
                    /\ \A i \in DOMAIN s.rewards.items :
                          Contains(c.inventory.items, s.rewards.items[i])
              /\ Contains(get_completed_stages(c), <<s.chapter, s.stage>>)
                 => \E u \in DOMAIN battle_sessions :
                       /\ battle_sessions[u].is_used
                       /\ battle_sessions[u].character_id = s.character_id
                       /\ battle_sessions[u].chapter = s.chapter
                       /\ battle_sessions[u].stage = s.stage

\* C7: a store failure on the session lookup or on the commit of a
\* stage-complete ends the request with a 500 that carries no
\* StageCompleteResponse body, and leaves the persisted sessions and
\* characters as they were, the session's is_used still false.
C7_StoreFailureIsProtocolFailure ==
    [][\A p \in Procs :
          (CS_SessionLookupFails(p) \/ CS_CommitFails(p))
          => /\ response'.status = 500
             /\ response'.body = <<>>
             /\ battle_sessions' = battle_sessions
             /\ characters' = characters
             /\ txn[p].pc = "commit"
                => ~battle_sessions'[txn[p].session_token].is_used
      ]_vars

\* C7 witness: the commit of an accepted stage-complete has just failed
C7_Witness ==
    /\ response = ServerError("stage_complete", "commit")
    /\ battle_sessions # <<>>
    /\ \A t \in DOMAIN battle_sessions : ~battle_sessions[t].is_used

\* C8: a stage-complete whose token names no session, or a session of
\* another character, is answered 400 'Invalid session token' and changes
\* no session and no character; a request that is accepted holds a session
\* of its own character, and its commit changes no other character.
C8_InvalidToken ==
    [][/\ \A p \in AtSessionLookup, t \in Tokens, cs \in CompleteCoords, v \in LogVariants :
            CS_LoadSession(p, t, cs[1], cs[2], v)
            => /\ ( \/ t \notin DOMAIN battle_sessions
                    \/ battle_sessions[t].character_id # txn[p].character_id )
                  => /\ response' = HTTPException("stage_complete", 400,
                                                   "Invalid session token")
                     /\ txn'[p].pc = "idle"
                     /\ characters' = characters
                     /\ battle_sessions' = battle_sessions
               /\ txn'[p].pc = "commit"
                  => /\ txn'[p].character_id = txn[p].character_id
                     /\ battle_sessions[txn'[p].session_token].character_id
                           = txn[p].character_id
      /\ \A p \in Procs :
            CS_Commit(p)
            => \A c \in DOMAIN characters :
                  c # battle_sessions[txn[p].session_token].character_id
                  => characters'[c] = characters[c]
     ]_vars

\* C8 witness: every token names an unused session of one character, a
\* second character exists, and a request was just rejected for its token
C8_Witness ==
    /\ response = HTTPException("stage_complete", 400, "Invalid session token")
    /\ Len(battle_sessions) = MaxSessions
    /\ Cardinality(DOMAIN characters) = 2
    /\ \A t \in DOMAIN battle_sessions :
          /\ ~battle_sessions[t].is_used
          /\ battle_sessions[t].character_id = battle_sessions[1].character_id

\* C9: a stage-complete for an unused session of the requesting character
\* at a time after expires_at is answered success:false 'Session expired',
\* whatever its chapter, stage and log, and changes nothing.
C9_ExpiredRejected ==
    [][\A p \in AtSessionLookup, t \in Tokens, cs \in CompleteCoords, v \in LogVariants :
          ( /\ CS_LoadSession(p, t, cs[1], cs[2], v)
            /\ FindSession(t, txn[p].character_id) # {}
            /\ ~battle_sessions[t].is_used
            /\ now > battle_sessions[t].expires_at )
          => /\ response' = Rejected(FALSE, "Session expired")
             /\ txn'[p].pc = "idle"
             /\ characters' = characters
             /\ battle_sessions' = battle_sessions
             /\ granted' = granted
      ]_vars

\* C9 witness: a request was just rejected as expired
C9_Witness ==
    /\ response = Rejected(FALSE, "Session expired")
    /\ \E t \in DOMAIN battle_sessions :
          ~battle_sessions[t].is_used /\ now > battle_sessions[t].expires_at

\* C10: the first failing guard decides the answer: a used and expired
\* session gives already_completed, an unused expired session with a
\* mismatching chapter/stage gives 'Session expired', and an unexpired
\* unused session with a mismatching chapter/stage and an invalid log gives
\* 'Chapter/stage mismatch'.
C10_GuardOrder ==
    [][\A p \in AtSessionLookup, t \in Tokens, cs \in CompleteCoords, v \in LogVariants :
          LET s == battle_sessions[t]
              expired == now > s.expires_at
              mismatch == s.chapter # cs[1] \/ s.stage # cs[2]
              verdict == validate_battle_log(
                             ClientLog(v, t, cs[1], cs[2]), s.chapter,
                             s.stage, s.mob_config, s.created_at)
          IN  /\ CS_LoadSession(p, t, cs[1], cs[2], v)
              /\ FindSession(t, txn[p].character_id) # {}
              => /\ (s.is_used /\ expired)
                    => response' = Rejected(TRUE, "Session already used")
                 /\ (~s.is_used /\ expired /\ mismatch)
                    => response' = Rejected(FALSE, "Session expired")
                 /\ (~s.is_used /\ ~expired /\ mismatch /\ ~verdict.is_valid)
                    => response' = Rejected(FALSE, "Chapter/stage mismatch")
      ]_vars

\* C10 witness: a request for a session that is used and expired was just
\* answered already_completed
C10_Witness ==
    /\ response = Rejected(TRUE, "Session already used")
    /\ \E t \in DOMAIN battle_sessions : battle_sessions[t].is_used
    /\ \A t \in DOMAIN battle_sessions :
          battle_sessions[t].is_used => now > battle_sessions[t].expires_at

\* C11: a stage-complete that is rejected for a chapter/stage mismatch or by
\* the battle validator leaves the session unused with used_at unset and
\* the characters as they were; a request for an unused, unexpired session
\* with matching chapter/stage and a valid log is accepted whatever was
\* rejected before, and its commit adds the session's rewards.
C11_RejectionKeepsSession ==
    [][/\ \A p \in AtSessionLookup, t \in Tokens, cs \in CompleteCoords, v \in LogVariants :
            LET s == battle_sessions[t]
                mismatch == s.chapter # cs[1] \/ s.stage # cs[2]
                verdict == validate_battle_log(
                               ClientLog(v, t, cs[1], cs[2]), s.chapter,
                               s.stage, s.mob_config, s.created_at)
            IN  /\ CS_LoadSession(p, t, cs[1], cs[2], v)
                /\ FindSession(t, txn[p].character_id) # {}
                /\ ~s.is_used
                /\ ~(now > s.expires_at)
                => /\ (mismatch \/ ~verdict.is_valid)
                      => /\ response'.status = 200
                         /\ ~response'.body.success
                         /\ ~response'.body.already_completed
                         /\ ~battle_sessions'[t].is_used
                         /\ battle_sessions'[t].used_at = <<>>
                         /\ battle_sessions' = battle_sessions
                         /\ characters' = characters
                   /\ (~mismatch /\ verdict.is_valid)
                      => /\ txn'[p].pc = "commit"
                         /\ txn'[p].session_token = t
      /\ \A p \in Procs :
            CS_Commit(p)
            => LET s == battle_sessions[txn[p].session_token]
                   c == s.character_id
               IN  /\ response'.body.success
                   /\ characters'[c].gold = characters[c].gold + s.rewards.gold
                   /\ characters'[c].gems = characters[c].gems + s.rewards.gems
                   /\ characters'[c].xp = characters[c].xp + s.rewards.xp
     ]_vars

\* C11 witness: a report for an unused, unexpired session of the requester
\* was just rejected by the battle validator
C11_Witness ==
    /\ response.op = "stage_complete" /\ response.status = 200
    /\ ~response.body.success
    /\ response.body.error \notin {"Session already used", "Session expired",
                                    "Chapter/stage mismatch"}
    /\ battle_sessions # <<>>
    /\ \A t \in DOMAIN battle_sessions :
          /\ ~battle_sessions[t].is_used
          /\ battle_sessions[t].used_at = <<>>
          /\ now <= battle_sessions[t].expires_at
    /\ \A c \in DOMAIN characters : characters[c].gold = 100

\* The stage-config requests C12 says are refused
Refused(user, c, cs) ==
    LET owned == c \in DOMAIN characters /\ characters[c].user_id = user
        completed == characters[c].progression.chapters.completed_stages
        before == IF cs[2] > 1 THEN <<cs[1], cs[2] - 1>>
                               ELSE <<cs[1] - 1, 10>>
        unlocked == cs = <<1, 1>> \/ Contains(completed, before)
    IN  \/ cs[1] \notin 1..20
        \/ cs[2] \notin 1..10
        \/ ~owned
        \/ ~unlocked

\* The request coordinates that are in range
PlayableCoords == {cs \in AllConfigCoords : cs[1] \in 1..20 /\ cs[2] \in 1..10}

\* C12: a stage-config request whose chapter is outside 1..20, whose stage
\* is outside 1..10, whose character is not the caller's, or whose stage is
\* not unlocked is answered with a 4xx error and creates no session and
\* changes nothing; a stage other than 1-1 counts as unlocked only when
\* the stage before it (stage-1, or stage 10 of the chapter before) is in
\* the character's completed_stages; no other request is answered 4xx.
\* Stated per answer: a step that answers 200 is the step of no refused
\* request, a step that answers 4xx is the step of no other request, and
\* a step that answers an error changes nothing.
C12_StageConfigGuards ==
    [][response'.op = "stage_config" =>
        IF response'.status = 200 THEN
            /\ Len(battle_sessions') = Len(battle_sessions) + 1
            /\ \A user \in Users, c \in CharacterIds, cs \in AllConfigCoords :
                  Refused(user, c, cs)
                  => \A seed \in Seeds :
                        ~get_stage_config(user, c, cs[1], cs[2], seed, 0)
        ELSE
            /\ response'.body = <<>>
            /\ battle_sessions' = battle_sessions
            /\ characters' = characters
            /\ granted' = granted
            /\ response'.status \in {400, 403, 404}
               => \A c \in DOMAIN characters, cs \in PlayableCoords :
                     ~Refused(characters[c].user_id, c, cs)
                     => \A seed \in Seeds :
                           ~get_stage_config(characters[c].user_id, c,
                                             cs[1], cs[2], seed, 0)
            /\ response'.status \notin {400, 403, 404}
               => \A user \in Users, c \in CharacterIds, cs \in AllConfigCoords :
                     Refused(user, c, cs)
                     => \A seed \in Seeds :
                           ~get_stage_config(user, c, cs[1], cs[2], seed, 0)
      ]_vars

\* C12 witness: an existing character's request for a stage that is not
\* unlocked was just refused
C12_Witness ==
    /\ response = HTTPException("stage_config", 403, "Stage not unlocked")
    /\ characters # <<>>
    /\ battle_sessions = <<>>

\* C13: after creation a character's gold, gems, xp, level, free stat
\* points, highest chapter/stage and completed_stages change only in the
\* commit of a stage-complete accepted against a session of that character.
C13_OnlyCompletionChangesEconomy ==
    [][\A c \in DOMAIN characters :
          LET old == characters[c]
              new == characters'[c]
          IN  ( \/ new.gold # old.gold
                \/ new.gems # old.gems
                \/ new.xp # old.xp
                \/ new.level # old.level
                \/ new.free_stat_points # old.free_stat_points
                \/ new.progression.chapters # old.progression.chapters )
              => \E p \in Procs :
                    /\ txn[p].pc = "commit"
                    /\ txn[p].character_id = c
                    /\ CS_Commit(p)
      ]_vars

\* C14: no two battle sessions, of the same or of different characters,
\* have the same session token.
C14_TokensUnique ==
    \A i, j \in DOMAIN battle_sessions :
        i # j => battle_sessions[i].session_token # battle_sessions[j].session_token

\* C14 witness: every session the table can hold exists, for two characters
C14_Witness ==
    /\ Len(battle_sessions) = MaxSessions
    /\ \E i, j \in DOMAIN battle_sessions :
          battle_sessions[i].character_id # battle_sessions[j].character_id

\* C15: every battle session expires exactly the configured TTL (600 s)
\* after the created_at stored on its row, and strictly later than it.
C15_ExpiryIsCreationPlusTTL ==
    \A t \in DOMAIN battle_sessions :
        /\ battle_sessions[t].expires_at
              = battle_sessions[t].created_at + battle_session_expiry_seconds
        /\ battle_sessions[t].expires_at > battle_sessions[t].created_at

\* ------------------------------------------------ claims on the validator
\* Workers about to validate the request they hold, its session and log
Pending == {p \in AtSessionLookup : "request" \in DOMAIN txn[p]}

ReqSession(p) == battle_sessions[txn[p].request.session_token]

ReqLog(p) == txn[p].request.battle_log

Verdict(p) ==
    validate_battle_log(ReqLog(p), ReqSession(p).chapter, ReqSession(p).stage,
                        ReqSession(p).mob_config, ReqSession(p).created_at)

SnapshotHealth(session) ==
    SumSeq([i \in 1..Len(session.mob_config) |-> session.mob_config[i].health])

DurationOk(log) ==
    /\ log.battle_end_time - log.battle_start_time >= 5000
    /\ log.battle_end_time - log.battle_start_time <= 600000

StartOk(log, session) ==
    log.battle_start_time >= session.created_at * 1000 - 5000

KillsOk(log, session) == log.stats.mobs_killed = Len(session.mob_config)

FloorOk(log, session) ==
    log.stats.total_damage_dealt * 2 >= SnapshotHealth(session)

CeilingOk(log) == log.stats.total_damage_dealt <= 100 * 50 * log.player_power

StatsOk(log) ==
    Abs(log.stats.duration_ms - (log.battle_end_time - log.battle_start_time))
        <= 1000

SixChecks(log, session) ==
    /\ DurationOk(log)
    /\ StartOk(log, session)
    /\ KillsOk(log, session)
    /\ FloorOk(log, session)
    /\ CeilingOk(log)
    /\ StatsOk(log)

SameStage(log, session) ==
    log.chapter = session.chapter /\ log.stage = session.stage

\* C16 as stated: the validator accepts a report exactly when the six
\* checks (duration bound, start after creation with 5 s grace, kill count,
\* damage floor, damage ceiling, reported duration within 1 s) hold, and no
\* other field of the report influences the verdict.
C16_SixChecksDecide ==
    \A p \in Pending :
        Verdict(p).is_valid <=> SixChecks(ReqLog(p), ReqSession(p))

\* C16 amended: the validator accepts a report exactly when the chapter
\* and stage written in the battle log equal the session's and the six
\* checks hold; no field other than these influences the verdict.
C16_SevenChecksDecide ==
    \A p \in Pending :
        Verdict(p).is_valid
            <=> (SameStage(ReqLog(p), ReqSession(p))
                 /\ SixChecks(ReqLog(p), ReqSession(p)))

\* C16 witness: the handler went on to the commit with a log that passes
\* the checks and reports a level the validator does not read
C16_Witness ==
    \E p \in Procs :
        /\ txn[p].pc = "commit"
        /\ txn[p].battle_log.player_level = 3
        /\ SameStage(txn[p].battle_log, battle_sessions[txn[p].session_token])
        /\ SixChecks(txn[p].battle_log, battle_sessions[txn[p].session_token])

\* C17: a request for an unused, unexpired session of the caller whose log
\* has a valid duration and start time and the session's chapter and stage
\* but a mobs_killed below or above the snapshot's monster count is
\* rejected with the kill-count-mismatch reason whatever damage and power
\* it reports, and the step leaves the session unused and the character
\* and the grants unchanged.
C17_KillCountMismatch ==
    [][\A p \in Pending :
          (/\ FindSession(txn[p].request.session_token, txn[p].character_id) # {}
           /\ ~ReqSession(p).is_used
           /\ ~is_expired(ReqSession(p))
           /\ ReqSession(p).chapter = txn[p].request.chapter
           /\ ReqSession(p).stage = txn[p].request.stage
           /\ SameStage(ReqLog(p), ReqSession(p))
           /\ DurationOk(ReqLog(p))
           /\ StartOk(ReqLog(p), ReqSession(p))
           /\ ~KillsOk(ReqLog(p), ReqSession(p))
           /\ CS_LoadSessionRequest(p))
          => /\ Verdict(p) = [is_valid |-> FALSE, error |-> "Kill count mismatch"]
             /\ response' = Rejected(FALSE,
                               "Battle validation failed: Kill count mismatch")
             /\ txn'[p].pc = "idle"
             /\ battle_sessions' = battle_sessions
             /\ ~battle_sessions'[txn[p].request.session_token].is_used
             /\ characters' = characters
             /\ granted' = granted
      ]_vars

\* C17 witness: a request was rejected for its kill count and the session
\* is unused, the character as created
C17_Witness ==
    /\ response = Rejected(FALSE, "Battle validation failed: Kill count mismatch")
    /\ \A t \in DOMAIN battle_sessions :
          ~battle_sessions[t].is_used /\ granted[t] = 0
    /\ \A c \in DOMAIN characters : characters[c].gold = 100

\* C18: a log with valid duration, start time and kill count whose
\* total_damage_dealt is strictly less than half of the summed health of
\* the snapshot's monsters is rejected (for its low damage, when it names
\* the session's chapter and stage), and one whose total_damage_dealt is
\* exactly half is not rejected for low damage.
C18_DamageFloor ==
    \A p \in Pending :
        (/\ DurationOk(ReqLog(p))
         /\ StartOk(ReqLog(p), ReqSession(p))
         /\ KillsOk(ReqLog(p), ReqSession(p)))
        => /\ ReqLog(p).stats.total_damage_dealt * 2 < SnapshotHealth(ReqSession(p))
              => /\ ~Verdict(p).is_valid
                 /\ SameStage(ReqLog(p), ReqSession(p))
                    => Verdict(p).error = "Damage dealt too low for mob health"
           /\ ReqLog(p).stats.total_damage_dealt * 2 = SnapshotHealth(ReqSession(p))
              => Verdict(p).error # "Damage dealt too low for mob health"

\* C18 witness: a request was rejected for its low damage
C18_Witness ==
    /\ response = Rejected(FALSE,
          "Battle validation failed: Damage dealt too low for mob health")
    /\ \A t \in DOMAIN battle_sessions : ~battle_sessions[t].is_used

\* ------------------------------------------- claims on the progression
Marker(character) ==
    <<character.progression.chapters.highest_chapter,
      character.progression.chapters.highest_stage>>

LexLeq(a, b) == a[1] < b[1] \/ (a[1] = b[1] /\ a[2] <= b[2])

\* C19: over any sequence of accepted completions, replays of earlier
\* stages included, the pair (highest_chapter, highest_stage) of a
\* character never decreases in lexicographic order.
C19_MarkerNeverDecreases ==
    [][\A c \in DOMAIN characters :
          c \in DOMAIN characters'
          => LexLeq(Marker(characters[c]), Marker(characters'[c]))]_vars

\* C19 witness: the marker has moved through two chapters into a third,
\* with earlier stages open to replay
C19_Witness ==
    \E c \in DOMAIN characters :
        /\ Marker(characters[c]) = <<3, 4>>
        /\ is_stage_unlocked(characters[c], 1, 2)

\* C20: after an accepted completion of stage 10 of chapter c the
\* character's highest_stage is not 10, and when c was the highest chapter
\* the marker is (c+1, 1).
C20_LastStageAdvancesChapter ==
    [][\A c \in DOMAIN characters, chapter \in 1..TOTAL_CHAPTERS :
          UpdateProgressionStep(c, chapter, STAGES_PER_CHAPTER)
          => /\ Marker(characters'[c])[2] # STAGES_PER_CHAPTER
             /\ Marker(characters[c])[1] = chapter
                => Marker(characters'[c]) = <<chapter + 1, 1>>]_vars

\* C20 witness: stage 10 of chapter 1 was completed and the marker is at
\* the first stage of chapter 2
C20_Witness ==
    \E c \in DOMAIN characters :
        /\ Contains(get_completed_stages(characters[c]), <<1, STAGES_PER_CHAPTER>>)
        /\ Marker(characters[c]) = <<2, 1>>

\* --------------------------------------- claims on rewards and generation
NoDuplicates(s) == \A i, j \in DOMAIN s : s[i] = s[j] => i = j

\* C21: after an accepted completion of stage (c,s) the progression a later
\* request reads has the key of (c,s) in completed_stages; completed_stages
\* never holds a key twice, and no key is ever removed from it.
C21_CompletedStagesKept ==
    [][\A c \in DOMAIN characters' :
          /\ \A t \in DOMAIN battle_sessions' :
                (battle_sessions'[t].is_used /\ battle_sessions'[t].character_id = c)
                => Contains(get_completed_stages(characters'[c]),
                            <<battle_sessions'[t].chapter, battle_sessions'[t].stage>>)
          /\ NoDuplicates(get_completed_stages(characters'[c]))
          /\ c \in DOMAIN characters
             => \A i \in DOMAIN get_completed_stages(characters[c]) :
                   Contains(get_completed_stages(characters'[c]),
                            get_completed_stages(characters[c])[i])
      ]_vars

\* C22: an accepted completion appends the snapshot's reward items to the
\* character's inventory in order until it holds max_slots items and drops
\* the rest, so it does not grow past max_slots; the completion succeeds
\* and grants the snapshot's full gold, gems and xp whether or not items
\* were dropped.
C22_ItemsUpToCapacity ==
    [][\A p \in Procs :
          (txn[p].pc = "commit" /\ CS_Commit(p))
          => LET c == txn[p].character_id
                 s == battle_sessions[txn[p].session_token]
                 old == characters[c]
                 new == characters'[c]
                 room == Max(0, old.inventory.max_slots - Len(old.inventory.items))
                 kept == SubSeq(s.rewards.items, 1, Min(room, Len(s.rewards.items)))
             IN  /\ new.inventory.items = old.inventory.items \o kept
                 /\ new.inventory.max_slots = old.inventory.max_slots
                 /\ Len(old.inventory.items) <= old.inventory.max_slots
                    => Len(new.inventory.items) <= new.inventory.max_slots
                 /\ response'.body.success
                 /\ new.gold = old.gold + s.rewards.gold
                 /\ new.gems = old.gems + s.rewards.gems
                 /\ new.xp = old.xp + s.rewards.xp
      ]_vars

\* C23: an accepted completion adds exactly 5 to free_stat_points when it
\* raises the character's level, by one level or by several, and leaves
\* free_stat_points and level as they were when it does not raise the level.
C23_FivePointsPerLevelUp ==
    [][\A p \in Procs :
          (txn[p].pc = "commit" /\ CS_Commit(p))
          => LET old == characters[txn[p].character_id]
                 new == characters'[txn[p].character_id]
             IN  IF new.level > old.level
                 THEN new.free_stat_points = old.free_stat_points + 5
                 ELSE /\ new.free_stat_points = old.free_stat_points
                      /\ new.level = old.level
      ]_vars

\* C23 witness: one completion took a character from level 1 to level 3
\* and it has 5 free stat points
C23_Witness ==
    \E c \in DOMAIN characters :
        /\ response.op = "stage_complete" /\ response.status = 200
        /\ response.body.success
        /\ response.body.new_level = <<3>>
        /\ characters[c].level = 3
        /\ characters[c].free_stat_points = 5

\* The level the leveling rule assigns to a total: 1 below 400, otherwise
\* the largest L with 100*L*L <= total
LargestLevel(total) ==
    IF total < 400 THEN 1
    ELSE CHOOSE L \in 1..(total \div 100) :
            /\ 100 * L * L <= total
            /\ \A M \in 1..(total \div 100) : 100 * M * M <= total => M <= L

\* C24: for non-negative current_xp and gained and current_level >= 1,
\* apply_xp returns (current_xp + gained, L, L > current_level) with L = 1
\* when the sum is below 400 and otherwise the largest level with
\* 100*L*L <= the sum; apply_xp(0, 1, 150) = (150, 1, false) and
\* apply_xp(0, 1, 500) = (500, 2, true).
C24_ApplyXp ==
    \A p \in Procs :
        txn[p].pc = "returned"
        => LET total == txn[p].current_xp + txn[p].xp_gained
               L == LargestLevel(total)
           IN  /\ response.body = [new_xp |-> total,
                                   new_level |-> L,
                                   did_level_up |-> L > txn[p].current_level]
               /\ (txn[p].current_xp = 0 /\ txn[p].current_level = 1
                   /\ txn[p].xp_gained = 150)
                  => response.body = [new_xp |-> 150, new_level |-> 1,
                                      did_level_up |-> FALSE]
               /\ (txn[p].current_xp = 0 /\ txn[p].current_level = 1
                   /\ txn[p].xp_gained = 500)
                  => response.body = [new_xp |-> 500, new_level |-> 2,
                                      did_level_up |-> TRUE]

\* C24 witness: apply_xp(0, 1, 500) has returned
C24_Witness ==
    /\ txn["p1"].pc = "returned"
    /\ txn["p1"].current_xp = 0
    /\ txn["p1"].current_level = 1
    /\ txn["p1"].xp_gained = 500
    /\ response.body.new_level = 2

\* Workers whose generator call has returned
Generated == {p \in Procs : txn[p].pc = "returned" /\ response.op = "generate_stage"}

\* The honest log for `mobs`, reporting `kills` monsters killed
LogWithKills(chapter, stage, mobs, kills) ==
    [BattleLog("honest", chapter, stage, mobs, 0) EXCEPT !.stats.mobs_killed = kills]

\* C25: for every chapter in 1..20 and stage in 1..10 the generated monster
\* list has 1 monster when stage is 10, 2 when stage is 5 and
\* min(3 + chapter div 2 + stage div 3, 10) otherwise, and a battle log
\* passes the kill-count check exactly when it reports that number.
C25_MonsterCount ==
    \A p \in Generated :
        LET chapter == txn[p].chapter
            stage == txn[p].stage
            mobs == response.body.mobs
            expected == IF stage = 10 THEN 1
                        ELSE IF stage = 5 THEN 2
                        ELSE Min(3 + chapter \div 2 + stage \div 3, 10)
        IN  /\ Len(mobs) = expected
            /\ \A kills \in 0..11 :
                  validate_battle_log(LogWithKills(chapter, stage, mobs, kills),
                                      chapter, stage, mobs, 0).is_valid
                  <=> kills = expected

\* C25 witness: a regular stage whose monster count is cut to 10
C25_Witness ==
    \E p \in Generated :
        /\ txn[p].stage = 9
        /\ 3 + txn[p].chapter \div 2 + txn[p].stage \div 3 > 10
        /\ Len(response.body.mobs) = 10

\* C26: for every chapter in 1..20 and stage in 1..10 the difficulty
\* multiplier is 1 + (chapter-1)*0.5 + (stage-1)*0.1, plus 0.5 when stage
\* is 10 or plus 0.25 when stage is 5, and is at least 1.0 (in twentieths:
\* 20 + (chapter-1)*10 + (stage-1)*2, plus 10 or plus 5, at least 20).
C26_DifficultyFormula ==
    \A p \in Generated :
        LET chapter == txn[p].chapter
            stage == txn[p].stage
            bonus == CASE stage = 10 -> 10 [] stage = 5 -> 5 [] OTHER -> 0
        IN  /\ response.body.difficulty_multiplier
                  = 20 + (chapter - 1) * 10 + (stage - 1) * 2 + bonus
            /\ response.body.difficulty_multiplier >= 20

\* C26 witness: the multiplier of a mini-boss stage, 2.65 for chapter 3
C26_Witness ==
    \E p \in Generated :
        /\ txn[p].chapter = 3 /\ txn[p].stage = 5
        /\ response.body.difficulty_multiplier = 53

\* C27 as stated: for every chapter the stage-10 stage has one monster and
\* the difficulty multiplier 1 + (chapter-1)*0.5 + 0.5.
C27_BossStage ==
    \A p \in Generated :
        txn[p].stage = 10
        => /\ Len(response.body.mobs) = 1
           /\ response.body.difficulty_multiplier
                 = 20 + (txn[p].chapter - 1) * 10 + 10

\* C27 amended: for every chapter the stage-10 stage has one monster and
\* the difficulty multiplier 1 + (chapter-1)*0.5 + 0.9 + 0.5, the stage
\* bonus of the tenth stage included.
C27_BossStageWithStageBonus ==
    \A p \in Generated :
        txn[p].stage = 10
        => /\ Len(response.body.mobs) = 1
           /\ response.body.difficulty_multiplier
                 = 20 + (txn[p].chapter - 1) * 10 + 18 + 10

\* C27 witness: the boss stage of chapter 20, one monster at 11.9
C27_Witness ==
    \E p \in Generated :
        /\ txn[p].chapter = 20 /\ txn[p].stage = 10
        /\ Len(response.body.mobs) = 1
        /\ response.body.difficulty_multiplier = 238

\* C28: for every chapter, stage and generated monster list the reward
\* package has gold = (100*chapter + 10*stage + sum of monster gold) * m,
\* xp = (50*chapter + 5*stage + sum of monster xp) * m and
\* gems = (chapter + stage div 5) * m, with m = 3 for stage 10, 2 for
\* stage 5 and 1 otherwise; chapter 1 stage 10 pays at least 600 gold.
C28_RewardFormula ==
    \A p \in Generated :
        LET chapter == txn[p].chapter
            stage == txn[p].stage
            mobs == response.body.mobs
            rewards == response.body.rewards
            m == CASE stage = 10 -> 3 [] stage = 5 -> 2 [] OTHER -> 1
            gold_sum == SumSeq([i \in DOMAIN mobs |-> mobs[i].gold_reward])
            xp_sum == SumSeq([i \in DOMAIN mobs |-> mobs[i].xp_reward])
        IN  /\ rewards.gold = (100 * chapter + 10 * stage + gold_sum) * m
            /\ rewards.xp = (50 * chapter + 5 * stage + xp_sum) * m
            /\ rewards.gems = (chapter + stage \div 5) * m
            /\ (chapter = 1 /\ stage = 10) => rewards.gold >= 600

\* C28 witness: the rewards of chapter 1 stage 10, tripled
C28_Witness ==
    \E p \in Generated :
        /\ txn[p].chapter = 1 /\ txn[p].stage = 10
        /\ response.body.rewards.gold >= 600
        /\ response.body.rewards.gems = 9

\* ------------------------------------------------- claims on the answers
\* A request failure: an HTTP error status and no result body
RequestFailure(r, status) == r.status = status /\ r.body = <<>>

\* A normal response that carries success:false and a reason
DomainFailure(r, already_completed) ==
    /\ r.op = "stage_complete"
    /\ r.status = 200
    /\ r.body.success = FALSE
    /\ r.body.already_completed = already_completed
    /\ r.body.error # ""

\* C29: stage-complete answers an already used session, an expired
\* session, a chapter/stage mismatch and a failed validation with a normal
\* response carrying success:false and a reason (already_completed:true for
\* the used session only), and an unknown token and a character the caller
\* does not own with a request failure; stage-config answers an
\* out-of-range chapter or stage and a locked stage with a request failure.
C29_FailureKinds ==
    [][/\ \A p \in AtSessionLookup, t \in Tokens, cs \in CompleteCoords,
            v \in LogVariants :
             CS_LoadSession(p, t, cs[1], cs[2], v)
             => IF t \notin DOMAIN battle_sessions
                   \/ battle_sessions[t].character_id # txn[p].character_id
                THEN RequestFailure(response', 400)
                ELSE LET s == battle_sessions[t]
                         log == ClientLog(v, t, cs[1], cs[2])
                     IN  IF s.is_used THEN DomainFailure(response', TRUE)
                         ELSE IF \/ now > s.expires_at
                                 \/ s.chapter # cs[1] \/ s.stage # cs[2]
                                 \/ ~(SameStage(log, s) /\ SixChecks(log, s))
                         THEN DomainFailure(response', FALSE)
                         ELSE response' = NoResponse /\ txn'[p].pc = "commit"
       /\ \A p \in Procs :
             (txn[p].pc = "idle" /\ response'.op = "stage_complete")
             => \A user \in Users, c \in CharacterIds :
                   (CS_LoadCharacter(p, user, c)
                    /\ (c \notin DOMAIN characters \/ characters[c].user_id # user))
                   => RequestFailure(response', 404)
       /\ (response'.op = "stage_config" /\ response'.status \notin {400, 403})
          => \A user \in Users, c \in DOMAIN characters, cs \in ConfigCoords :
                (\/ cs[1] \notin 1..20 \/ cs[2] \notin 1..10
                 \/ /\ characters[c].user_id = user
                    /\ cs # <<1, 1>>
                    /\ ~is_stage_unlocked(characters[c], cs[1], cs[2]))
                => \A seed \in Seeds : ~get_stage_config(user, c, cs[1], cs[2], seed, 0)
      ]_vars

\* C29 witness: a request for a used session got the normal response with
\* success:false and already_completed:true
C29_Witness ==
    /\ DomainFailure(response, TRUE)
    /\ \E t \in DOMAIN battle_sessions : battle_sessions[t].is_used

\* C30: the monsters and the reward package (gold, gems, xp, items) that a
\* successful stage-config call returns are those stored in the battle
\* session the call creates, a stored snapshot never changes, and an
\* accepted completion reports and grants those same values.
C30_SnapshotIsWhatWasTold ==
    [][/\ (response'.op = "stage_config" /\ response'.status = 200)
          => /\ Len(battle_sessions') = Len(battle_sessions) + 1
             /\ LET s == battle_sessions'[Len(battle_sessions')]
                IN  /\ response'.body.session_token = s.session_token
                    /\ response'.body.mobs = s.mob_config
                    /\ response'.body.rewards = s.rewards
       /\ \A t \in DOMAIN battle_sessions :
             /\ t \in DOMAIN battle_sessions'
             /\ battle_sessions'[t].mob_config = battle_sessions[t].mob_config
             /\ battle_sessions'[t].rewards = battle_sessions[t].rewards
       /\ \A p \in Procs :
             (txn[p].pc = "commit" /\ CS_Commit(p))
             => LET s == battle_sessions[txn[p].session_token]
                    old == characters[txn[p].character_id]
                    new == characters'[txn[p].character_id]
                IN  /\ response'.body.rewards = << s.rewards >>
                    /\ new.gold = old.gold + s.rewards.gold
                    /\ new.gems = old.gems + s.rewards.gems
                    /\ new.xp = old.xp + s.rewards.xp
      ]_vars

\* C30 witness: a stage-config call has answered with monsters and with
\* rewards that include items, and the session it names stores them
C30_Witness ==
    /\ response.op = "stage_config" /\ response.status = 200
    /\ response.body.rewards.items # <<>>
    /\ response.body.mobs # <<>>
    /\ response.body.session_token \in DOMAIN battle_sessions
    /\ battle_sessions[response.body.session_token].rewards = response.body.rewards
    /\ battle_sessions[response.body.session_token].mob_config = response.body.mobs


StageCompleteStep == response'.op = "stage_complete" \/ txn' # txn

\* C32: a step of a stage-complete request, whatever its outcome, adds and
\* removes no session and no character, leaves token, owner, chapter,
\* stage, monster snapshot, reward snapshot, created_at and expires_at of
\* every session as they were, changes a session (its is_used and used_at)
\* only if it is the commit of a request for that session's token, and
\* changes a character only if it is the commit of a request of that
\* character.
C32_CompletionFrame ==
    [][StageCompleteStep
       => /\ DOMAIN battle_sessions' = DOMAIN battle_sessions
          /\ DOMAIN characters' = DOMAIN characters
          /\ \A t \in DOMAIN battle_sessions :
                LET old == battle_sessions[t]
                    new == battle_sessions'[t]
                IN  /\ new.session_token = old.session_token
                    /\ new.character_id = old.character_id
                    /\ new.chapter = old.chapter
                    /\ new.stage = old.stage
                    /\ new.mob_config = old.mob_config
                    /\ new.rewards = old.rewards
                    /\ new.created_at = old.created_at
                    /\ new.expires_at = old.expires_at
                    /\ new # old
                       => \E p \in Procs : /\ txn[p].pc = "commit"
                                           /\ txn[p].session_token = t
                                           /\ txn'[p].pc = "idle"
                                           /\ response'.status = 200
          /\ \A c \in DOMAIN characters :
                characters'[c] # characters[c]
                => \E p \in Procs : /\ txn[p].pc = "commit"
                                    /\ txn[p].character_id = c
                                    /\ txn'[p].pc = "idle"
                                    /\ response'.status = 200
      ]_vars

\* C32 witness: a completion was just accepted for one of two sessions a
\* character holds for the same stage, the other one is still unused, and
\* a second character is as it was created
C32_Witness ==
    /\ response.op = "stage_complete" /\ response.status = 200
    /\ response.body.success
    /\ \E t, u \in DOMAIN battle_sessions :
          /\ battle_sessions[t].is_used
          /\ ~battle_sessions[u].is_used /\ battle_sessions[u].used_at = <<>>
          /\ battle_sessions[u].character_id = battle_sessions[t].character_id
          /\ battle_sessions[u].chapter = battle_sessions[t].chapter
          /\ battle_sessions[u].stage = battle_sessions[t].stage
          /\ \E c \in DOMAIN characters :
                /\ c # battle_sessions[t].character_id
                /\ characters[c] = NewCharacter(c[1], c[2])
                /\ characters[battle_sessions[t].character_id].gold > 100


\* The stage whose completion unlocks stage cs
StageBefore(cs) == IF cs[2] > 1 THEN <<cs[1], cs[2] - 1>> ELSE <<cs[1] - 1, 10>>

\* C33: a stage-config request of a character for the stage that follows
\* a stage it has an accepted completion of is not refused as locked, and
\* a session is created when it is answered; the same request of a
\* character without an accepted completion of the stage before is refused
\* with 'Stage not unlocked'.
C33_CompletionUnlocksNext ==
    [][response'.op = "stage_config"
       => \A c \in DOMAIN characters, cs \in ConfigCoords \ {<<1, 1>>}, seed \in Seeds :
             ( /\ cs[1] \in 1..TOTAL_CHAPTERS /\ cs[2] \in 1..STAGES_PER_CHAPTER
               /\ get_stage_config(characters[c].user_id, c, cs[1], cs[2], seed, 0) )
             => IF \E t \in DOMAIN battle_sessions :
                      /\ battle_sessions[t].character_id = c
                      /\ <<battle_sessions[t].chapter, battle_sessions[t].stage>>
                            = StageBefore(cs)
                      /\ granted[t] >= 1
                THEN /\ response' # HTTPException("stage_config", 403,
                                                  "Stage not unlocked")
                     /\ response'.status = 200
                        => Len(battle_sessions') = Len(battle_sessions) + 1
                ELSE response' = HTTPException("stage_config", 403,
                                               "Stage not unlocked")
      ]_vars


\* C34: for every outcome of the drop draws the item list
\* generate_stage_item_drops returns for a stage 10 has one or two items,
\* and the list it returns for any other stage has at most as many items
\* as the stage has monsters.
C34_ItemCount ==
    (txn["p1"].pc = "returned" /\ response.op = "generate_stage_item_drops")
    => LET items == response.body
           monsters == get_mob_count(txn["p1"].chapter, txn["p1"].stage)
       IN  /\ txn["p1"].num_mobs = monsters
           /\ IF txn["p1"].stage = 10
              THEN monsters = 1 /\ Len(items) >= 1 /\ Len(items) <= 2
              ELSE Len(items) <= monsters

\* C34 witness: the call for a boss stage returned two items, the
\* guaranteed one and the one its monster dropped
C34_Witness ==
    /\ txn["p1"].pc = "returned" /\ response.op = "generate_stage_item_drops"
    /\ txn["p1"].stage = 10
    /\ Len(response.body) = 2


\* C35: two stage-config calls for the same chapter and stage answer with
\* the same gold, gems and xp, the same number of monsters, the same
\* difficulty multiplier and the same time limit, whatever monsters and
\* item drops the random source gave each of them.
C35_DeterministicInStage ==
    \A p, q \in Procs :
        ( /\ txn[p].pc = "returned" /\ txn[q].pc = "returned"
          /\ txn[p].chapter = txn[q].chapter /\ txn[p].stage = txn[q].stage )
        => LET a == txn[p].config
               b == txn[q].config
           IN  /\ a.rewards.gold = b.rewards.gold
               /\ a.rewards.gems = b.rewards.gems
               /\ a.rewards.xp = b.rewards.xp
               /\ Len(a.mobs) = Len(b.mobs)
               /\ a.difficulty_multiplier = b.difficulty_multiplier
               /\ a.time_limit_seconds = b.time_limit_seconds

\* C35 witness: two calls for the same stage have returned different
\* monsters and different item drops
C35_Witness ==
    /\ txn["p1"].pc = "returned" /\ txn["p2"].pc = "returned"
    /\ txn["p1"].chapter = txn["p2"].chapter
    /\ txn["p1"].stage = txn["p2"].stage
    /\ \E i \in DOMAIN txn["p1"].config.mobs :
          txn["p1"].config.mobs[i].mob_id # txn["p2"].config.mobs[i].mob_id
    /\ txn["p1"].config.rewards.items # txn["p2"].config.rewards.items
    /\ txn["p1"].config.rewards.gold = txn["p2"].config.rewards.gold


\* C36: when two different sessions of one character have each been
\* answered success:true once, by requests handled in any interleaving,
\* the character holds the gold, gems and xp of both and both stage keys
\* are in its completed_stages.
C36_BothCompletionsKept ==
    \A t, u \in DOMAIN battle_sessions :
        ( /\ t # u
          /\ battle_sessions[t].character_id = battle_sessions[u].character_id
          /\ granted[t] = 1 /\ granted[u] = 1 )
        => LET c == battle_sessions[t].character_id
               a == battle_sessions[t]
               b == battle_sessions[u]
           IN  /\ characters[c].gold =
                      NewCharacter(c[1], c[2]).gold + a.rewards.gold + b.rewards.gold
               /\ characters[c].gems =
                      NewCharacter(c[1], c[2]).gems + a.rewards.gems + b.rewards.gems
               /\ characters[c].xp =
                      NewCharacter(c[1], c[2]).xp + a.rewards.xp + b.rewards.xp
               /\ Contains(get_completed_stages(characters[c]), <<a.chapter, a.stage>>)
               /\ Contains(get_completed_stages(characters[c]), <<b.chapter, b.stage>>)


\* C37: in every state the stored level of a character is the level of its
\* stored xp (1 below 400 xp, otherwise the largest L with 100*L*L <= xp),
\* and no step lowers the xp or the level of a character.
C37_LevelFollowsXp ==
    [][\A c \in DOMAIN characters :
          /\ characters[c].level = LargestLevel(characters[c].xp)
          /\ c \in DOMAIN characters'
          /\ characters'[c].level = LargestLevel(characters'[c].xp)
          /\ characters'[c].xp >= characters[c].xp
          /\ characters'[c].level >= characters[c].level
      ]_vars


\* A list of stage keys that has, with every key, the key of the stage
\* before it
ClosedUnderPredecessor(completed) ==
    \A i \in DOMAIN completed :
        LET cs == completed[i]
        IN  /\ cs[2] > 1 => Contains(completed, <<cs[1], cs[2] - 1>>)
            /\ (cs[2] = 1 /\ cs[1] > 1)
               => Contains(completed, <<cs[1] - 1, STAGES_PER_CHAPTER>>)

\* C38: in every state the completed_stages of every character contains,
\* with "c-s" for s > 1, "c-(s-1)" and, with "c-1" for c > 1, "(c-1)-10",
\* whatever sessions are outstanding.
C38_CompletedStagesClosed ==
    \A c \in DOMAIN characters :
        ClosedUnderPredecessor(get_completed_stages(characters[c]))

\* C38 witness: a session handed out later has been completed while an
\* earlier one is still outstanding, and the completed stages reach into
\* the second chapter
C38_Witness ==
    /\ \E t, u \in DOMAIN battle_sessions :
          /\ t < u
          /\ ~battle_sessions[t].is_used
          /\ battle_sessions[u].is_used
          /\ <<battle_sessions[u].chapter, battle_sessions[u].stage>> = <<2, 1>>
          /\ <<battle_sessions[t].chapter, battle_sessions[t].stage>> = <<1, 10>>
    /\ \A c \in DOMAIN characters :
          /\ Contains(get_completed_stages(characters[c]), <<2, 1>>)
          /\ Contains(get_completed_stages(characters[c]), <<1, 10>>)


C40_AllRaritiesReachable ==
    (txn["p1"].pc = "returned" /\ response.op = "roll_item_drop")
    => LET chapter == txn["p1"].chapter
           rarity_roll == txn["p1"].rarity_roll
           legendary == 980 - chapter * 5
           epic == 900 - chapter * 10
           rare == 700 - chapter * 20
       IN  /\ legendary > epic /\ epic > rare /\ rare > 400
           /\ response.body # <<>>
           /\ response.body[1].rarity = RollRarity(chapter, rarity_roll)
           /\ \A rarity \in {COMMON, UNCOMMON, RARE, EPIC, LEGENDARY} :
                 \E draw \in RarityDraws : RollRarity(chapter, draw) = rarity

====
